---- MODULE Spec2Model ----
(***************************************************************************)
(* Webinar catalog page: event normalisation, date/time parsing and the    *)
(* filter/sort pipeline, modelled from the drafts of the page.             *)
(*                                                                         *)
(* Strings are sequences of one-character strings, so that the regular     *)
(* expressions of the source are computed character by character.          *)
(* Instants are whole minutes since the epoch (UTC); the viewer's local    *)
(* time is the instant plus the zone offset `tz` (no daylight saving).     *)
(***************************************************************************)
EXTENDS Integers, Sequences, FiniteSets, TLC

(* ------------------------------------------------------------------ *)
(* Characters                                                          *)
(* ------------------------------------------------------------------ *)

UpperLetters ==
  <<"A","B","C","D","E","F","G","H","I","J","K","L","M",
    "N","O","P","Q","R","S","T","U","V","W","X","Y","Z">>

LowerLetters ==
  <<"a","b","c","d","e","f","g","h","i","j","k","l","m",
    "n","o","p","q","r","s","t","u","v","w","x","y","z">>

DigitChars == <<"0","1","2","3","4","5","6","7","8","9">>

Range(f) == { f[i] : i \in DOMAIN f }

UpperSet == Range(UpperLetters)

DigitSet == Range(DigitChars)

\* the lower-case letter of each upper-case letter
LowerOf ==
  [c \in UpperSet |-> LowerLetters[CHOOSE i \in DOMAIN UpperLetters : UpperLetters[i] = c]]

\* the value of each decimal digit
DigitValue ==
  [c \in DigitSet |-> (CHOOSE i \in DOMAIN DigitChars : DigitChars[i] = c) - 1]

\* String.prototype.toLowerCase on one character
ToLowerChar(c) == IF c \in UpperSet THEN LowerOf[c] ELSE c

ToLowerCase(s) == [i \in DOMAIN s |-> ToLowerChar(s[i])]

\* regex class \d
IsDigit(c) == c \in DigitSet

\* value of one decimal digit (parseInt on a digit)
DigitVal(c) == DigitValue[c]

WordChars == UpperSet \cup Range(LowerLetters) \cup DigitSet \cup {"_"}

\* regex class \w
IsWordChar(c) == c \in WordChars

\* regex class \s (the model's strings hold the plain space only)
IsSpace(c) == c = " "

\* is position i of s a word character (positions outside s are not)
WordAt(s, i) == i >= 1 /\ i <= Len(s) /\ IsWordChar(s[i])

\* regex assertion \b between positions i-1 and i of s
BoundaryAt(s, i) == WordAt(s, i - 1) # WordAt(s, i)

\* does the literal tok occur in s at position i (case-insensitively when ci)
MatchAt(s, i, tok, ci) ==
  /\ i >= 1
  /\ i + Len(tok) - 1 <= Len(s)
  /\ \A k \in 1..Len(tok) :
       IF ci THEN ToLowerChar(s[i + k - 1]) = ToLowerChar(tok[k])
             ELSE s[i + k - 1] = tok[k]

\* the number of \s characters of s from position i on
RECURSIVE SpacesFrom(_, _)
SpacesFrom(s, i) ==
  IF i <= Len(s) /\ IsSpace(s[i]) THEN 1 + SpacesFrom(s, i + 1) ELSE 0

\* String.prototype.trim
RECURSIVE TrimLeft(_)
TrimLeft(s) ==
  IF s # <<>> /\ IsSpace(Head(s)) THEN TrimLeft(Tail(s)) ELSE s

RECURSIVE TrimRight(_)
TrimRight(s) ==
  IF s # <<>> /\ IsSpace(s[Len(s)]) THEN TrimRight(SubSeq(s, 1, Len(s) - 1)) ELSE s

Trim(s) == TrimRight(TrimLeft(s))

(* ------------------------------------------------------------------ *)
(* Values of the feed: a cell of a row is null/undefined, a JSON string *)
(* or a JSON number (held with the text String(v) gives for it).        *)
(* ------------------------------------------------------------------ *)

\* null / undefined
Null == [type |-> "null", text |-> <<>>]

\* a string value
Str(chars) == [type |-> "string", text |-> chars]

\* a number value, with its decimal rendering
Num(chars) == [type |-> "number", text |-> chars]

\* String(v) of a value that is not null
StringOf(v) == v.text

\* a row of the feed: null, or an object with the given cells
NullRow == [null |-> TRUE, cells |-> <<>>]

Row(cells) == [null |-> FALSE, cells |-> cells]

\* row?.[k]
Cell(row, k) ==
  IF row.null THEN Null
  ELSE IF k \in DOMAIN row.cells THEN row.cells[k] ELSE Null

(* ------------------------------------------------------------------ *)
(* App.jsx (second draft): safeStr, normalizeTime, parseEventStart     *)
(* ------------------------------------------------------------------ *)

\* safeStr(v): "" for null/undefined, otherwise String(v).trim()
safeStr(v) == IF v = Null THEN <<>> ELSE Trim(StringOf(v))

TimezoneNames ==
  { <<"C","E","N","T","R","A","L"," ","T","I","M","E">>,
    <<"M","O","U","N","T","A","I","N"," ","T","I","M","E">>,
    <<"P","A","C","I","F","I","C"," ","T","I","M","E">>,
    <<"E","A","S","T","E","R","N"," ","T","I","M","E">> }

TimezoneAbbrevs ==
  { <<"C","S","T">>, <<"C","D","T">>, <<"M","S","T">>, <<"M","D","T">>,
    <<"P","S","T">>, <<"P","D","T">>, <<"E","S","T">>, <<"E","D","T">> }

\* the alternatives of toks that match s at i as /\b(tok|...)\b/ does
TokensAt(s, i, toks, ci) ==
  { tok \in toks : /\ BoundaryAt(s, i)
                   /\ MatchAt(s, i, tok, ci)
                   /\ BoundaryAt(s, i + Len(tok)) }

\* t.replace(/\b(tok|...)\b/g, repl), scanning s from position i
RECURSIVE ReplaceWords(_, _, _, _, _)
ReplaceWords(s, i, toks, ci, repl) ==
  IF i > Len(s) THEN <<>>
  ELSE LET hit == TokensAt(s, i, toks, ci)
       IN IF hit # {}
          THEN LET tok == CHOOSE x \in hit : TRUE
               IN repl[tok] \o ReplaceWords(s, i + Len(tok), toks, ci, repl)
          ELSE <<s[i]>> \o ReplaceWords(s, i + 1, toks, ci, repl)

\* t.replace(/\b(...)\b/gi, "")
StripTimezones(s, toks) ==
  ReplaceWords(s, 1, toks, TRUE, [tok \in toks |-> <<>>])

\* t.replace(/\s*-\s*/g, " - "), scanning s from position i
RECURSIVE SpaceHyphens(_, _)
SpaceHyphens(s, i) ==
  IF i > Len(s) THEN <<>>
  ELSE LET j == i + SpacesFrom(s, i)
       IN IF j <= Len(s) /\ s[j] = "-"
          THEN <<" ", "-", " ">> \o SpaceHyphens(s, j + 1 + SpacesFrom(s, j + 1))
          ELSE <<s[i]>> \o SpaceHyphens(s, i + 1)

\* does /(am|pm)\b/ match s at position i (any letter case when ci)
MeridiemAt(s, i, ci) ==
  /\ \/ MatchAt(s, i, <<"A","M">>, TRUE)
     \/ MatchAt(s, i, <<"P","M">>, TRUE)
  /\ ci \/ (s[i] = ToLowerChar(s[i]) /\ s[i + 1] = ToLowerChar(s[i + 1]))
  /\ ~WordAt(s, i + 2)

\* t.replace(/(\d)(AM|PM)\b/gi, "$1 $2"), scanning s from position i
RECURSIVE SpaceBeforeMeridiem(_, _)
SpaceBeforeMeridiem(s, i) ==
  IF i > Len(s) THEN <<>>
  ELSE IF IsDigit(s[i]) /\ MeridiemAt(s, i + 1, TRUE)
       THEN <<s[i], " ", s[i + 1], s[i + 2]>> \o SpaceBeforeMeridiem(s, i + 3)
       ELSE <<s[i]>> \o SpaceBeforeMeridiem(s, i + 1)

\* t.replace(/\bAM\b/g, "am").replace(/\bPM\b/g, "pm")
LowercaseMeridiem(s) ==
  LET am == { <<"A","M">> }
      pm == { <<"P","M">> }
      a  == ReplaceWords(s, 1, am, FALSE, [tok \in am |-> <<"a","m">>])
  IN ReplaceWords(a, 1, pm, FALSE, [tok \in pm |-> <<"p","m">>])

\* t.replace(/\s+/g, " "), scanning s from position i
RECURSIVE CollapseSpaces(_, _)
CollapseSpaces(s, i) ==
  IF i > Len(s) THEN <<>>
  ELSE IF IsSpace(s[i])
       THEN <<" ">> \o CollapseSpaces(s, i + SpacesFrom(s, i))
       ELSE <<s[i]>> \o CollapseSpaces(s, i + 1)

\* t.replace(/\s(am|pm)\b/g, "$1"), scanning s from position i
RECURSIVE JoinMeridiem(_, _)
JoinMeridiem(s, i) ==
  IF i > Len(s) THEN <<>>
  ELSE IF IsSpace(s[i]) /\ MeridiemAt(s, i + 1, FALSE)
       THEN <<s[i + 1], s[i + 2]>> \o JoinMeridiem(s, i + 3)
       ELSE <<s[i]>> \o JoinMeridiem(s, i + 1)

\* normalizeTime(timeStr)
normalizeTime(timeStr) ==
  LET t0 == safeStr(timeStr)
      t1 == StripTimezones(t0, TimezoneNames)
      t2 == StripTimezones(t1, TimezoneAbbrevs)
      t3 == SpaceHyphens(t2, 1)
      t4 == SpaceBeforeMeridiem(t3, 1)
      t5 == LowercaseMeridiem(t4)
      t6 == Trim(CollapseSpaces(t5, 1))
  IN IF t0 = <<>> THEN <<>> ELSE JoinMeridiem(t6, 1)

\* t.match(/^(\d{1,2})(?::(\d{2}))?/): <<>> when there is no match, otherwise
\* <<the hour digits, the minute digits (<<>> when the group did not take part)>>
StartMatch(t) ==
  IF ~(Len(t) >= 1 /\ IsDigit(t[1])) THEN <<>>
  ELSE LET n == IF Len(t) >= 2 /\ IsDigit(t[2]) THEN 2 ELSE 1
           hasMin == /\ Len(t) >= n + 3
                     /\ t[n + 1] = ":"
                     /\ IsDigit(t[n + 2])
                     /\ IsDigit(t[n + 3])
       IN << SubSeq(t, 1, n),
             IF hasMin THEN SubSeq(t, n + 2, n + 3) ELSE <<>> >>

\* the positions where /\b(am|pm)\b/i matches t
AmPmPositions(t) ==
  { i \in 1..Len(t) : BoundaryAt(t, i) /\ MeridiemAt(t, i, TRUE) }

\* t.match(/\b(am|pm)\b/i): <<>> when there is no match, otherwise the first
\* match lower-cased
AmPmMatch(t) ==
  LET at == AmPmPositions(t)
  IN IF at = {} THEN <<>>
     ELSE LET i == CHOOSE x \in at : \A y \in at : x <= y
          IN <<ToLowerChar(t[i]), ToLowerChar(t[i + 1])>>

\* parseInt(digits, 10) of a non-empty run of decimal digits
RECURSIVE ParseInt(_)
ParseInt(ds) ==
  IF ds = <<>> THEN 0
  ELSE 10 * ParseInt(SubSeq(ds, 1, Len(ds) - 1)) + DigitVal(ds[Len(ds)])

\* the hour after the am/pm conversion of parseEventStart
To24Hour(hours, ampm) ==
  IF ampm = <<>> THEN hours
  ELSE IF hours = 12 THEN (IF ampm = <<"a","m">> THEN 0 ELSE 12)
  ELSE IF ampm = <<"p","m">> THEN hours + 12
  ELSE hours

\* the local variables <<hours, minutes>> of parseEventStart before the
\* start datetime is built
StartHM(timeStr) ==
  LET t == normalizeTime(timeStr)
      startMatch == StartMatch(t)
  IN IF t = <<>> \/ startMatch = <<>> THEN <<12, 0>>
     ELSE << To24Hour(ParseInt(startMatch[1]), AmPmMatch(t)),
             IF startMatch[2] # <<>> THEN ParseInt(startMatch[2]) ELSE 0 >>

(* ------------------------------------------------------------------ *)
(* Dates.  An instant is a number of minutes since 2026-04-01T00:00Z;   *)
(* an optional Date is <<>> (null / Invalid Date) or <<instant>>.       *)
(* ------------------------------------------------------------------ *)

MinutesPerDay == 24 * 60

NoDate == <<>>

\* the calendar day (0 = 2026-04-01) of instant t for a viewer whose local
\* time is UTC + z minutes: Date.prototype.getFullYear/getMonth/getDate
LocalDay(t, z) == (t + z) \div MinutesPerDay

\* the minute of the local day of instant t: getHours() * 60 + getMinutes()
LocalMinute(t, z) == (t + z) % MinutesPerDay

\* new Date(year, month, day, hours, minutes, 0, 0): local time, with hours
\* and minutes beyond their range carried into the following days
LocalDate(day, hours, minutes, z) ==
  day * MinutesPerDay + hours * 60 + minutes - z

IsoDatePrefix == <<"2","0","2","6","-","0","4","-">>

IsoTimeSuffix == <<":","0","0",".","0","0","0","Z">>

UsDatePrefix == <<"4","/">>

UsDateSuffix == <<"/","2","0","2","6">>

\* are positions i and i+1 of s two decimal digits
TwoDigitsAt(s, i) == i + 1 <= Len(s) /\ IsDigit(s[i]) /\ IsDigit(s[i + 1])

\* new Date(s).getTime() for the date formats of the feed, as an optional
\* instant: "2026-04-DD" is UTC midnight, "2026-04-DDTHH:MM:00.000Z" is that
\* UTC instant, "4/DD/2026" is local midnight; anything else is Invalid Date
ParseJsDate(s, z) ==
  IF /\ Len(s) = 10
     /\ MatchAt(s, 1, IsoDatePrefix, FALSE)
     /\ TwoDigitsAt(s, 9)
     /\ ParseInt(SubSeq(s, 9, 10)) \in 1..30
  THEN << (ParseInt(SubSeq(s, 9, 10)) - 1) * MinutesPerDay >>
  ELSE IF /\ Len(s) = 24
          /\ MatchAt(s, 1, IsoDatePrefix, FALSE)
          /\ TwoDigitsAt(s, 9)
          /\ ParseInt(SubSeq(s, 9, 10)) \in 1..30
          /\ s[11] = "T"
          /\ TwoDigitsAt(s, 12)
          /\ ParseInt(SubSeq(s, 12, 13)) \in 0..23
          /\ s[14] = ":"
          /\ TwoDigitsAt(s, 15)
          /\ ParseInt(SubSeq(s, 15, 16)) \in 0..59
          /\ MatchAt(s, 17, IsoTimeSuffix, FALSE)
  THEN << (ParseInt(SubSeq(s, 9, 10)) - 1) * MinutesPerDay
          + ParseInt(SubSeq(s, 12, 13)) * 60 + ParseInt(SubSeq(s, 15, 16)) >>
  ELSE IF /\ Len(s) = 9
          /\ MatchAt(s, 1, UsDatePrefix, FALSE)
          /\ TwoDigitsAt(s, 3)
          /\ ParseInt(SubSeq(s, 3, 4)) \in 1..30
          /\ MatchAt(s, 5, UsDateSuffix, FALSE)
  THEN << LocalDate(ParseInt(SubSeq(s, 3, 4)) - 1, 0, 0, z) >>
  ELSE NoDate

\* parseEventStart(dateStr, timeStr) for a viewer at UTC + z minutes
parseEventStart(dateStr, timeStr, z) ==
  LET base == ParseJsDate(safeStr(dateStr), z)
      hm == StartHM(timeStr)
  IN IF base = NoDate THEN NoDate
     ELSE << LocalDate(LocalDay(base[1], z), hm[1], hm[2], z) >>

(* ------------------------------------------------------------------ *)
(* Numbers and lists                                                    *)
(* ------------------------------------------------------------------ *)

\* a JS number that is NaN, or the finite decimal m / 10^e (e least)
NaN == [nan |-> TRUE, m |-> 0, e |-> 0]

Decimal(m, e) == [nan |-> FALSE, m |-> m, e |-> e]

RECURSIVE Pow10(_)
Pow10(e) == IF e = 0 THEN 1 ELSE 10 * Pow10(e - 1)

\* a run of digits without its trailing zeros
RECURSIVE DropTrailingZeros(_)
DropTrailingZeros(ds) ==
  IF ds # <<>> /\ ds[Len(ds)] = "0"
  THEN DropTrailingZeros(SubSeq(ds, 1, Len(ds) - 1))
  ELSE ds

\* Number(s) for a string s of decimal digits and dots
JsNumber(s) ==
  LET dots == { i \in 1..Len(s) : s[i] = "." }
  IN IF s = <<>> THEN Decimal(0, 0)
     ELSE IF Cardinality(dots) > 1 \/ Len(s) = Cardinality(dots) THEN NaN
     ELSE IF dots = {} THEN Decimal(ParseInt(s), 0)
     ELSE LET d == CHOOSE i \in dots : TRUE
              frac == DropTrailingZeros(SubSeq(s, d + 1, Len(s)))
          IN Decimal(ParseInt(SubSeq(s, 1, d - 1) \o frac), Len(frac))

\* a < b for finite numbers
NumLess(a, b) == a.m * Pow10(b.e) < b.m * Pow10(a.e)

\* String(i) for an integer i >= 0
RECURSIVE IntToChars(_)
IntToChars(i) ==
  IF i < 10 THEN <<DigitChars[i + 1]>>
  ELSE IntToChars(i \div 10) \o <<DigitChars[(i % 10) + 1]>>

\* the digits of i, padded on the left with zeros to at least n digits
RECURSIVE PadDigits(_, _)
PadDigits(ds, n) == IF Len(ds) >= n THEN ds ELSE PadDigits(<<"0">> \o ds, n)

\* String(x) for a finite number x >= 0
NumToChars(x) ==
  IF x.e = 0 THEN IntToChars(x.m)
  ELSE LET ds == PadDigits(IntToChars(x.m), x.e + 1)
       IN SubSeq(ds, 1, Len(ds) - x.e) \o <<".">> \o SubSeq(ds, Len(ds) - x.e + 1, Len(ds))

\* [...new Set(arr)]: the first occurrence of each element, in order
RECURSIVE Distinct(_)
Distinct(arr) ==
  IF arr = <<>> THEN <<>>
  ELSE LET init == Distinct(SubSeq(arr, 1, Len(arr) - 1))
           x == arr[Len(arr)]
       IN IF x \in Range(init) THEN init ELSE Append(init, x)

\* Array.prototype.join
RECURSIVE Join(_, _)
Join(arr, sep) ==
  IF arr = <<>> THEN <<>>
  ELSE IF Len(arr) = 1 THEN arr[1]
  ELSE arr[1] \o sep \o Join(Tail(arr), sep)

\* String.prototype.split(",")
RECURSIVE SplitCommas(_)
SplitCommas(s) ==
  LET commas == { i \in 1..Len(s) : s[i] = "," }
  IN IF commas = {} THEN <<s>>
     ELSE LET c == CHOOSE i \in commas : \A j \in commas : i <= j
          IN <<SubSeq(s, 1, c - 1)>> \o SplitCommas(SubSeq(s, c + 1, Len(s)))

\* String.prototype.includes
Includes(hay, needle) ==
  \E i \in 1..(Len(hay) - Len(needle) + 1) : MatchAt(hay, i, needle, FALSE)

\* the rank of a character in the collation order of localeCompare:
\* punctuation, then digits, then letters without regard to case
CollationOrder ==
  <<" ", "_", "-", ",", ":", ".", "/">> \o DigitChars \o LowerLetters

CharRank(c) ==
  LET l == ToLowerChar(c)
  IN IF \E i \in DOMAIN CollationOrder : CollationOrder[i] = l
     THEN CHOOSE i \in DOMAIN CollationOrder : CollationOrder[i] = l
     ELSE 0

\* a.localeCompare(b) < 0, a.localeCompare(b) = 0 being a = b up to case and
\* lower case sorting first among strings equal up to case
LocaleLess(a, b) ==
  LET RankLess[i \in 1..(Len(a) + 1)] ==
        IF i > Len(a) THEN Len(b) > Len(a)
        ELSE IF i > Len(b) THEN FALSE
        ELSE IF CharRank(a[i]) # CharRank(b[i]) THEN CharRank(a[i]) < CharRank(b[i])
        ELSE RankLess[i + 1]
      CaseLess[i \in 1..(Len(a) + 1)] ==
        IF i > Len(a) \/ i > Len(b) THEN FALSE
        ELSE IF a[i] # b[i] THEN a[i] = ToLowerChar(a[i])
        ELSE CaseLess[i + 1]
  IN IF ToLowerCase(a) # ToLowerCase(b) THEN RankLess[1] ELSE CaseLess[1]

\* a comparator that takes a missing date for the instant 0 (the epoch)
DateDifferenceFromEpoch(ad, bd) ==
  LET a == IF ad = NoDate THEN 0 ELSE ad[1]
      b == IF bd = NoDate THEN 0 ELSE bd[1]
  IN IF a > b THEN "positive" ELSE IF a < b THEN "negative" ELSE "zero"

\* the comparator (a, b) => ad - bd of the date sorts, on optional instants:
\* a missing date counts as Number.POSITIVE_INFINITY, so that the difference
\* is -Infinity, +Infinity or (both missing) NaN
DateDifference(ad, bd) ==
  IF ad = NoDate /\ bd = NoDate THEN "NaN"
  ELSE IF ad = NoDate THEN "positive"
  ELSE IF bd = NoDate THEN "negative"
  ELSE IF ad[1] > bd[1] THEN "positive"
  ELSE IF ad[1] < bd[1] THEN "negative"
  ELSE "zero"

\* Array.prototype.sort with that comparator, as the order of the indices of
\* the keys: a stable sort, each key inserted after the keys that the
\* comparator does not put after it (a NaN result counts as +0)
SortOrder(keys) ==
  LET Sorted[n \in 0..Len(keys)] ==
        IF n = 0 THEN <<>>
        ELSE LET init == Sorted[n - 1]
                 later == { i \in 1..Len(init) :
                              \A j \in i..Len(init) :
                                DateDifference(keys[init[j]], keys[n]) = "positive" }
                 at == IF later = {} THEN Len(init) + 1
                       ELSE CHOOSE i \in later : \A j \in later : i <= j
             IN SubSeq(init, 1, at - 1) \o <<n>> \o SubSeq(init, at, Len(init))
  IN Sorted[Len(keys)]

(* ------------------------------------------------------------------ *)
(* part_002 (the production draft): helpers and normalize               *)
(* ------------------------------------------------------------------ *)

\* safe(v): the trimmed string of v, "" for null/undefined
safe(v) == IF v = Null THEN <<>> ELSE Trim(StringOf(v))

\* parseDate(value): null for an empty or unparsable value
parseDate(value, z) ==
  LET s == safe(value)
  IN IF s = <<>> THEN NoDate ELSE ParseJsDate(s, z)

MonthNames == << <<"M","a","r">>, <<"A","p","r">>, <<"M","a","y">> >>

\* formatDate(d): toLocaleDateString(undefined, {month: "short", day:
\* "numeric", year: "numeric"}) in the en-US locale, e.g. "Apr 2, 2026"
formatDate(d, z) ==
  LET day == LocalDay(d[1], z)
      month == IF day < 0 THEN 1 ELSE IF day < 30 THEN 2 ELSE 3
      dom == IF day < 0 THEN day + 32 ELSE IF day < 30 THEN day + 1 ELSE day - 29
  IN MonthNames[month] \o <<" ">> \o IntToChars(dom)
       \o <<",", " ", "2", "0", "2", "6">>

\* endOfDay(d): x.setHours(23, 59, 59, 999), the last minute of d's local day
endOfDay(d, z) == << LocalDate(LocalDay(d[1], z), 23, 59, z) >>

\* uniq(arr): [...new Set(arr.filter(Boolean))]
uniq(arr) == Distinct(SelectSeq(arr, LAMBDA x : x # <<>>))

\* a splitCsv that trims the entries and keeps the empty ones
splitCsvKeepingEmpty(value) ==
  LET s == safe(value)
      parts == SplitCommas(s)
  IN IF s = <<>> THEN <<>> ELSE [i \in DOMAIN parts |-> Trim(parts[i])]

\* splitCsv(value)
splitCsv(value) ==
  LET s == safe(value)
      parts == SplitCommas(s)
      trimmed == [i \in DOMAIN parts |-> Trim(parts[i])]
  IN IF s = <<>> THEN <<>> ELSE SelectSeq(trimmed, LAMBDA x : x # <<>>)

\* get(...keys) of normalize: the first key whose value is defined, not null
\* and not blank, as a trimmed string; "" when there is none
RECURSIVE get(_, _)
get(row, keys) ==
  IF keys = <<>> THEN <<>>
  ELSE LET v == Cell(row, Head(keys))
       IN IF v # Null /\ Trim(StringOf(v)) # <<>>
          THEN Trim(StringOf(v))
          ELSE get(row, Tail(keys))

\* a || b on strings
OrElse(a, b) == IF a # <<>> THEN a ELSE b

\* String(ceRaw).replace(/[^\d.]/g, "")
DigitsAndDots(s) == SelectSeq(s, LAMBDA c : IsDigit(c) \/ c = ".")

\* ce: Number.isFinite(ce) && ce > 0 ? ce : null, as an optional number
CeOf(ceRaw) ==
  LET ce == JsNumber(DigitsAndDots(ceRaw))
  IN IF ~ce.nan /\ ce.m > 0 THEN <<ce>> ELSE <<>>

UntitledEvent == <<"U","n","t","i","t","l","e","d"," ","E","v","e","n","t">>

RowPrefix == <<"r","o","w","-">>

\* the sessions of normalize: the two label/url pairs, without the pairs
\* that have neither
SessionsOf(row) ==
  SelectSeq(
    << [ label |-> get(row, <<"Time of the event", "Time of Event", "Time 1">>),
         url |-> get(row, <<"Registration Link", "Reg Link", "Registration">>) ],
       [ label |-> get(row, <<"2nd time of the Event", "Second Time", "Time 2">>),
         url |-> get(row, <<"Second Registration Link", "Second Reg Link",
                            "Registration 2">>) ] >>,
    LAMBDA x : safe(Str(x.label)) # <<>> \/ safe(Str(x.url)) # <<>>)

\* normalize(row, i)
normalize(row, i, z) ==
  [ id |-> OrElse(get(row, <<"id", "ID">>), RowPrefix \o IntToChars(i)),
    title |-> OrElse(get(row, <<"Name of Event", "Event Name", "Title">>),
                     UntitledEvent),
    description |-> get(row, <<"Description", "description", "DESC",
                               "Course Description">>),
    date |-> parseDate(Str(get(row, <<"Date of the Event", "Event Date", "Date">>)), z),
    category |-> get(row, <<"category", "Category", "CATEGORY">>),
    ce |-> CeOf(get(row, <<"CE Hours", "CE", "CE Hour", "CE hours">>)),
    vendor |-> get(row, <<"Presenter / Vendor (Tag)", "Vendor", "Presenter",
                          "Presenter/Vendor">>),
    vendorLogo |-> get(row, <<"Vendor Logo", "Vender Logo", "Vendor logo", "Logo">>),
    thumb |-> get(row, <<"Course Thumb", "Course Thumbnail", "Thumbnail", "Thumb",
                         "Image">>),
    format |-> get(row, <<"Format", "format", "Event Format", "Type">>),
    roles |-> splitCsv(Str(get(row, <<"Roles", "Role", "Role / Position", "Position",
                                      "Positions">>))),
    location |-> get(row, <<"Location", "location", "Venue", "Address">>),
    inPersonRegistrationLink |->
      get(row, <<"In person registration link", "In Person Registration Link",
                 "In-Person Registration Link", "In person Registration link",
                 "In Person Reg Link", "In-Person Reg Link">>),
    sessions |-> SessionsOf(row) ]

\* json.items.map(normalize): the index of the first row is 0
NormalizeAll(items, z) == [i \in DOMAIN items |-> normalize(items[i], i - 1, z)]

\* arr.sort((a, b) => a.localeCompare(b)) of distinct strings
SortStrings(arr) ==
  LET Sorted[n \in 0..Len(arr)] ==
        IF n = 0 THEN <<>>
        ELSE LET init == Sorted[n - 1]
                 later == { i \in 1..Len(init) :
                              \A j \in i..Len(init) : LocaleLess(arr[n], init[j]) }
                 at == IF later = {} THEN Len(init) + 1
                       ELSE CHOOSE i \in later : \A j \in later : i <= j
             IN SubSeq(init, 1, at - 1) \o <<arr[n]>> \o SubSeq(init, at, Len(init))
  IN Sorted[Len(arr)]

\* arr.sort((a, b) => a - b) of distinct finite numbers
SortNumbers(arr) ==
  LET Sorted[n \in 0..Len(arr)] ==
        IF n = 0 THEN <<>>
        ELSE LET init == Sorted[n - 1]
                 later == { i \in 1..Len(init) :
                              \A j \in i..Len(init) : NumLess(arr[n], init[j]) }
                 at == IF later = {} THEN Len(init) + 1
                       ELSE CHOOSE i \in later : \A j \in later : i <= j
             IN SubSeq(init, 1, at - 1) \o <<arr[n]>> \o SubSeq(init, at, Len(init))
  IN Sorted[Len(arr)]

\* the option lists of the sidebar
categoriesOf(rs) == SortStrings(uniq([i \in DOMAIN rs |-> rs[i].category]))

vendorsOf(rs) == SortStrings(uniq([i \in DOMAIN rs |-> rs[i].vendor]))

formatsOf(rs) == SortStrings(uniq([i \in DOMAIN rs |-> rs[i].format]))

ceHoursOf(rs) ==
  LET withCe == SelectSeq(rs, LAMBDA r : r.ce # <<>>)
  IN SortNumbers(Distinct([i \in DOMAIN withCe |-> withCe[i].ce[1]]))

\* the concatenation of the elements of a list of lists (flatMap)
RECURSIVE Flatten(_)
Flatten(lists) ==
  IF lists = <<>> THEN <<>> ELSE Head(lists) \o Flatten(Tail(lists))

rolesOf(rs) == SortStrings(uniq(Flatten([i \in DOMAIN rs |-> rs[i].roles])))

\* a past filter that takes an event with no date for a past one
IsUpcomingDatedOnly(r, instant, z) ==
  r.date # NoDate /\ endOfDay(r.date, z)[1] >= instant

\* the past filter of filtered: r.date ? endOfDay(r.date) >= now : true
IsUpcoming(r, instant, z) ==
  IF r.date # NoDate THEN endOfDay(r.date, z)[1] >= instant ELSE TRUE

\* the haystack of the search of filtered
Haystack(r, z) ==
  ToLowerCase(
    r.title \o <<" ">> \o r.vendor \o <<" ">> \o r.category \o <<" ">> \o r.format
      \o <<" ">> \o (IF r.ce # <<>> THEN NumToChars(r.ce[1]) ELSE <<>>)
      \o <<" ">> \o r.description \o <<" ">> \o r.location
      \o <<" ">> \o Join(r.roles, <<" ">>)
      \o <<" ">> \o (IF r.date # NoDate THEN formatDate(r.date, z) ELSE <<>>))

\* the selections of the facets and the query, as one value
FilterState(q, cats, vens, ces, fmts, rls) ==
  [ query |-> q, catSelected |-> cats, vendorSelected |-> vens,
    ceSelected |-> ces, formatSelected |-> fmts, rolesSelected |-> rls ]

\* facet and search filters that leave the CE hours facet out
MatchesIgnoringCe(r, f, z) ==
  LET q == ToLowerCase(safe(Str(f.query)))
  IN /\ f.catSelected # {} => r.category \in f.catSelected
     /\ f.vendorSelected # {} => r.vendor \in f.vendorSelected
     /\ f.formatSelected # {} => r.format \in f.formatSelected
     /\ f.rolesSelected # {} => \E i \in DOMAIN r.roles : r.roles[i] \in f.rolesSelected
     /\ q # <<>> => Includes(Haystack(r, z), q)

\* facet and search filters that ask for every role of the row to be selected
MatchesAllRoles(r, f, z) ==
  LET q == ToLowerCase(safe(Str(f.query)))
  IN /\ f.catSelected # {} => r.category \in f.catSelected
     /\ f.vendorSelected # {} => r.vendor \in f.vendorSelected
     /\ f.ceSelected # {} => (r.ce # <<>> /\ r.ce[1] \in f.ceSelected)
     /\ f.formatSelected # {} => r.format \in f.formatSelected
     /\ f.rolesSelected # {} => \A i \in DOMAIN r.roles : r.roles[i] \in f.rolesSelected
     /\ q # <<>> => Includes(Haystack(r, z), q)

\* facet and search filters that keep a row as soon as one facet with a
\* selection matches it
MatchesAnyFacet(r, f, z) ==
  LET q == ToLowerCase(safe(Str(f.query)))
  IN /\ \/ f.catSelected = {} /\ f.vendorSelected = {} /\ f.ceSelected = {}
             /\ f.formatSelected = {} /\ f.rolesSelected = {}
        \/ r.category \in f.catSelected
        \/ r.vendor \in f.vendorSelected
        \/ r.ce # <<>> /\ r.ce[1] \in f.ceSelected
        \/ r.format \in f.formatSelected
        \/ \E i \in DOMAIN r.roles : r.roles[i] \in f.rolesSelected
     /\ q # <<>> => Includes(Haystack(r, z), q)

\* facet and search filters that ask an event for every selected value of a
\* facet
MatchesEverySelected(r, f, z) ==
  LET q == ToLowerCase(safe(Str(f.query)))
  IN /\ \A c \in f.catSelected : r.category = c
     /\ \A v \in f.vendorSelected : r.vendor = v
     /\ \A h \in f.ceSelected : r.ce # <<>> /\ r.ce[1] = h
     /\ \A m \in f.formatSelected : r.format = m
     /\ \A o \in f.rolesSelected : \E i \in DOMAIN r.roles : r.roles[i] = o
     /\ q # <<>> => Includes(Haystack(r, z), q)

\* the facet and search filters of filtered, on one row
Matches(r, f, z) ==
  LET q == ToLowerCase(safe(Str(f.query)))
  IN /\ f.catSelected # {} => r.category \in f.catSelected
     /\ f.vendorSelected # {} => r.vendor \in f.vendorSelected
     /\ f.ceSelected # {} => (r.ce # <<>> /\ r.ce[1] \in f.ceSelected)
     /\ f.formatSelected # {} => r.format \in f.formatSelected
     /\ f.rolesSelected # {} => \E i \in DOMAIN r.roles : r.roles[i] \in f.rolesSelected
     /\ q # <<>> => Includes(Haystack(r, z), q)

\* rows in the order of the date sort: .sort((a, b) => ad - bd)
SortByDate(rs) ==
  LET order == SortOrder([i \in DOMAIN rs |-> rs[i].date])
  IN [i \in DOMAIN rs |-> rs[order[i]]]

\* a filtered that shows every event that it keeps twice
FilteredRowsTwice(rs, f, instant, z) ==
  LET kept == SortByDate(SelectSeq(rs, LAMBDA r : IsUpcoming(r, instant, z) /\ Matches(r, f, z)))
  IN kept \o kept

\* filtered: the past filter, the facet and search filters, the date sort
FilteredRows(rs, f, instant, z) ==
  SortByDate(SelectSeq(rs, LAMBDA r : IsUpcoming(r, instant, z) /\ Matches(r, f, z)))

(* ------------------------------------------------------------------ *)
(* App.jsx (second draft): the rows of the feed, the lists of the page  *)
(* ------------------------------------------------------------------ *)

\* normalizeListField(v)
normalizeListField(v) ==
  IF v = Null THEN <<>>
  ELSE LET parts == SplitCommas(StringOf(v))
           trimmed == [i \in DOMAIN parts |-> Trim(parts[i])]
       IN SelectSeq(trimmed, LAMBDA x : x # <<>>)

\* the callback of (data.items || []).map((row, idx) => ...), idx from 0
ParseRow(row, idx, z) ==
  LET date == Cell(row, "Date of the Event")
      time == Cell(row, "Time of the event")
  IN [ id |-> OrElse(safeStr(Cell(row, "id")), IntToChars(idx + 1)),
       title |-> safeStr(Cell(row, "Name of Event")),
       presenter |-> safeStr(Cell(row, "Presenter / Vendor (Tag)")),
       description |-> safeStr(Cell(row, "Description")),
       ce |-> safeStr(Cell(row, "Hours (Tag)")),
       cost |-> safeStr(Cell(row, "Cost")),
       link |-> safeStr(Cell(row, "Registration Link")),
       thumb |-> safeStr(Cell(row, "Thumbnail Link")),
       date |-> date,
       time |-> time,
       categories |-> normalizeListField(Cell(row, "Category Tags")),
       startAt |-> parseEventStart(date, time, z) ]

ParseAll(items, z) == [i \in DOMAIN items |-> ParseRow(items[i], i - 1, z)]

\* upcomingItems: items.filter((i) => !i.startAt || i.startAt >= new Date())
upcomingItemsOf(items, instant) ==
  SelectSeq(items, LAMBDA i : i.startAt = NoDate \/ i.startAt[1] >= instant)

\* ceOptions
ceOptionsOf(upcoming) == SortStrings(uniq([i \in DOMAIN upcoming |-> upcoming[i].ce]))

\* presenterOptions
presenterOptionsOf(upcoming) ==
  SortStrings(uniq([i \in DOMAIN upcoming |-> upcoming[i].presenter]))

\* categoryOptions
categoryOptionsOf(upcoming) ==
  SortStrings(Distinct(Flatten([i \in DOMAIN upcoming |-> upcoming[i].categories])))

\* matchesQuery && matchesCE && matchesPresenter && matchesCategory
MatchesItem(i, f) ==
  LET q == ToLowerCase(Trim(f.query))
  IN /\ \/ q = <<>>
        \/ Includes(ToLowerCase(i.title), q)
        \/ Includes(ToLowerCase(i.presenter), q)
        \/ Includes(ToLowerCase(i.description), q)
        \/ Includes(ToLowerCase(Join(i.categories, <<",", " ">>)), q)
     /\ f.ceSelected = {} \/ i.ce \in f.ceSelected
     /\ f.vendorSelected = {} \/ i.presenter \in f.vendorSelected
     /\ \/ f.catSelected = {}
        \/ \E c \in DOMAIN i.categories : i.categories[c] \in f.catSelected

\* items in the order of the sort by startAt
SortByStart(is) ==
  LET order == SortOrder([i \in DOMAIN is |-> is[i].startAt])
  IN [i \in DOMAIN is |-> is[order[i]]]

\* filtered: the facet and search filters on upcomingItems, the sort
FilteredItems(upcoming, f) ==
  SortByStart(SelectSeq(upcoming, LAMBDA i : MatchesItem(i, f)))

(* ------------------------------------------------------------------ *)
(* State                                                               *)
(* ------------------------------------------------------------------ *)

VARIABLES
  tz,            \* the viewer's zone: local time = UTC + tz minutes
  timeStr,       \* input of normalizeTime / parseEventStart (a feed value)
  dateStr,       \* input of parseEventStart (a feed value)
  normalized,    \* normalizeTime(timeStr)
  renormalized,  \* normalizeTime(normalized)
  startAt,       \* parseEventStart(dateStr, timeStr)
  stage,         \* how far the date/time functions have been applied
  draft,         \* which App component is mounted: "part_002" or "App.jsx"
  now,           \* the clock: what new Date() returns
  request,       \* the request of the load effect: "pending" or "settled"
  cancelled,     \* the flag of the load effect, set by its cleanup
  rows,          \* state rows (part_002) / items (App.jsx)
  loading,       \* state loading
  loadError,     \* state loadError (part_002) / err (App.jsx)
  query,         \* state query
  catSelected,   \* state catSelected / selectedCategories
  vendorSelected,\* state vendorSelected / selectedPresenters
  ceSelected,    \* state ceSelected / selectedCE
  formatSelected,\* state formatSelected (part_002)
  rolesSelected, \* state rolesSelected (part_002)
  upcomingItems, \* memo upcomingItems (App.jsx)
  filtered,      \* memo filtered
  pastFilterAt,  \* the instant that the past filter read at its last run
  uiEvents,      \* how many events of the visitor were handled
  response,      \* what the request of the feed ended with
  subject,       \* the function that is applied to one argument
  argument,      \* its argument
  outcome,       \* whether it was applied, whether it threw, what it returned
  jsonp          \* loadJsonp: its promise, callback, script element and timer

timeVars == <<timeStr, dateStr, normalized, renormalized, startAt, stage>>

loadVars == <<request, response, cancelled, rows, loading, loadError, jsonp>>

filterVars ==
  <<query, catSelected, vendorSelected, ceSelected, formatSelected, rolesSelected>>

memoVars == <<upcomingItems, filtered, pastFilterAt>>

pageVars == <<draft, now, loadVars, filterVars, memoVars, uiEvents>>

applyVars == <<subject, argument, outcome>>

vars == <<tz, timeVars, pageVars, applyVars>>

(* ------------------------------------------------------------------ *)
(* Inputs of the date/time functions                                   *)
(* ------------------------------------------------------------------ *)

\* the longest time string, in pieces, given to normalizeTime
MaxTimePieces == 4

\* the longest time string, in pieces, given to parseEventStart
MaxStartPieces == 3

TimePieces ==
  { <<"7",":","0","0">>, <<"8",":","0","0">>,
    <<"p","m">>, <<"P","M">>, <<"P","m">>, <<"a","m">>,
    <<" ">>, <<"-">>,
    <<"C","S","T">>, <<"C","e","n","t","r","a","l">>, <<"T","i","m","e">> }

StartPieces ==
  { <<"8">>, <<"1","2">>, <<"9","9">>, <<":","0","0">>, <<":","4","5">>,
    <<"p","m">>, <<"P","M">>, <<"a","m">>, <<"A","m">>,
    <<" ">>, <<"-">>, <<"T","B","D">> }

\* every string made of at most n of the pieces
RECURSIVE Concats(_, _)
Concats(pieces, n) ==
  IF n = 0 THEN { <<>> }
  ELSE LET shorter == Concats(pieces, n - 1)
       IN shorter \cup { s \o p : s \in shorter, p \in pieces }

DateInputs ==
  { Null,
    Str(<<"T","B","D">>),
    Str(<<"2","0","2","6","-","0","4","-","0","2">>),
    Str(<<"2","0","2","6","-","0","4","-","0","3",
          "T","0","5",":","0","0",":","0","0",".","0","0","0","Z">>),
    Str(<<"4","/","0","2","/","2","0","2","6">>) }

\* zone offsets of viewers: US Central (standard time), UTC, Central Europe
Zones == { -6 * 60, 0, 60 }

\* no response yet
NoResponse == [kind |-> "none", items |-> <<>>]

\* loadJsonp is not followed on its own
NoJsonp ==
  [ promise |-> "none", callback |-> FALSE, script |-> FALSE, timer |-> FALSE,
    events |-> <<>> ]

\* no page is mounted
PageAtRest ==
  /\ response = NoResponse
  /\ jsonp = NoJsonp
  /\ draft = "none"
  /\ now = 0
  /\ request = "settled"
  /\ cancelled = TRUE
  /\ rows = <<>>
  /\ loading = FALSE
  /\ loadError = <<>>
  /\ query = <<>>
  /\ catSelected = {}
  /\ vendorSelected = {}
  /\ ceSelected = {}
  /\ formatSelected = {}
  /\ rolesSelected = {}
  /\ upcomingItems = <<>>
  /\ filtered = <<>>
  /\ pastFilterAt = 0
  /\ uiEvents = 0

\* the function has not been applied
NoOutcome == [applied |-> FALSE, threw |-> FALSE, value |-> <<>>]

\* no function is applied on its own
ApplyAtRest ==
  /\ subject = "none"
  /\ argument = Null
  /\ outcome = NoOutcome

TimeAtRest ==
  /\ timeStr = Null
  /\ dateStr = Null
  /\ normalized = <<>>
  /\ renormalized = <<>>
  /\ startAt = NoDate
  /\ stage = "idle"

(* ------------------------------------------------------------------ *)
(* SpecTime: normalizeTime applied to a time string, then to its result *)
(* ------------------------------------------------------------------ *)

InitTime ==
  /\ tz = 0
  /\ timeStr \in { Null } \cup { Str(s) : s \in Concats(TimePieces, MaxTimePieces) }
  /\ dateStr = Null
  /\ normalized = <<>>
  /\ renormalized = <<>>
  /\ startAt = NoDate
  /\ stage = "input"
  /\ PageAtRest
  /\ ApplyAtRest

NormalizeOnce ==
  /\ stage = "input"
  /\ normalized' = normalizeTime(timeStr)
  /\ stage' = "normalized"
  /\ UNCHANGED <<tz, timeStr, dateStr, renormalized, startAt, pageVars, applyVars>>

NormalizeAgain ==
  /\ stage = "normalized"
  /\ renormalized' = normalizeTime(Str(normalized))
  /\ stage' = "renormalized"
  /\ UNCHANGED <<tz, timeStr, dateStr, normalized, startAt, pageVars, applyVars>>

NextTime == NormalizeOnce \/ NormalizeAgain

SpecTime == InitTime /\ [][NextTime]_vars

(* ------------------------------------------------------------------ *)
(* SpecStart: parseEventStart applied to a date and a time string       *)
(* ------------------------------------------------------------------ *)

InitStart ==
  /\ tz \in Zones
  /\ timeStr \in { Null } \cup { Str(s) : s \in Concats(StartPieces, MaxStartPieces) }
  /\ dateStr \in DateInputs
  /\ normalized = <<>>
  /\ renormalized = <<>>
  /\ startAt = NoDate
  /\ stage = "input"
  /\ PageAtRest
  /\ ApplyAtRest

ParseStart ==
  /\ stage = "input"
  /\ startAt' = parseEventStart(dateStr, timeStr, tz)
  /\ normalized' = normalizeTime(timeStr)
  /\ stage' = "parsed"
  /\ UNCHANGED <<tz, timeStr, dateStr, renormalized, pageVars, applyVars>>

NextStart == ParseStart

SpecStart == InitStart /\ [][NextStart]_vars

(* ------------------------------------------------------------------ *)
(* Claims about the date/time functions                                *)
(* ------------------------------------------------------------------ *)

\* the positions of s where an am/pm marker (any letter case) stands as the
\* end of a word, right after a digit or at the start of a word
MarkerPositions(s) ==
  { i \in 1..Len(s) : /\ MeridiemAt(s, i, TRUE)
                      /\ (i = 1 \/ ~IsWordChar(s[i - 1]) \/ IsDigit(s[i - 1])) }

\* the first am/pm marker of s, lower-cased
FirstMarker(s) ==
  LET i == CHOOSE x \in MarkerPositions(s) : \A y \in MarkerPositions(s) : x <= y
  IN <<ToLowerChar(s[i]), ToLowerChar(s[i + 1])>>

\* 12-hour conventions: 12 AM is 0, 12 PM is 12, otherwise PM adds 12
Hour24(h, marker) ==
  IF h = 12 THEN (IF marker = <<"a","m">> THEN 0 ELSE 12)
  ELSE IF marker = <<"p","m">> THEN h + 12 ELSE h

\* the day of the month written in a date string of the feed, as a day number
NominalDay(s) ==
  IF MatchAt(s, 1, IsoDatePrefix, FALSE) THEN ParseInt(SubSeq(s, 9, 10)) - 1
  ELSE ParseInt(SubSeq(s, 3, 4)) - 1

\* C3: for a parseable date and a time string that, once normalised, starts
\* with a 12-hour clock token hour[:minute] and holds an am/pm marker, the
\* start timestamp is at the 24-hour form of that hour ("8:00pm" is hour 20,
\* "12:00am" hour 0, "12:00pm" hour 12) and at that minute.
C3_AmPmHourIs24h ==
  ( /\ stage = "parsed"
    /\ startAt # NoDate
    /\ StartMatch(normalized) # <<>>
    /\ ParseInt(StartMatch(normalized)[1]) \in 1..12
    /\ ParseInt(StartMatch(normalized)[2]) \in 0..59
    /\ MarkerPositions(normalized) # {} )
  => LocalMinute(startAt[1], tz)
       = Hour24(ParseInt(StartMatch(normalized)[1]), FirstMarker(normalized)) * 60
         + ParseInt(StartMatch(normalized)[2])

\* C4: for a parseable date and any time string, the start timestamp is not
\* before the start of the date's calendar day and not after the end of the
\* following calendar day.
C4_StartWithinDay ==
  (stage = "parsed" /\ startAt # NoDate)
  => LET base == ParseJsDate(safeStr(dateStr), tz)
         day == LocalDay(base[1], tz)
     IN /\ startAt[1] >= LocalDate(day, 0, 0, tz)
        /\ startAt[1] < LocalDate(day + 2, 0, 0, tz)

\* C5: for a parseable date and a time string without a leading hour[:minute]
\* token, the start timestamp is local noon on the very day the date string
\* names, in every zone of the viewer.
C5_NoonOnNominalDay ==
  ( /\ stage = "parsed"
    /\ ParseJsDate(safeStr(dateStr), tz) # NoDate
    /\ StartMatch(normalized) = <<>> )
  => startAt = << LocalDate(NominalDay(safeStr(dateStr)), 12, 0, tz) >>

\* C6: normalizeTime is idempotent: normalising a normalised time string
\* gives the same string.
C6_NormalizeIdempotent ==
  stage = "renormalized" => renormalized = normalized

\* a digit of s followed, with or without spaces, by an am/pm marker in any
\* letter case: the positions <<digit, marker>>
DigitMarkerPairs(s) ==
  { <<i, i + 1 + SpacesFrom(s, i + 1)>> : i \in { k \in 1..Len(s) : IsDigit(s[k]) } }
    \cap { <<i, j>> \in (1..Len(s)) \X (1..Len(s) + 1) : MeridiemAt(s, j, TRUE) }

\* no US timezone name or abbreviation stands in s as a word
NoTimezoneIn(s) ==
  \A i \in 1..Len(s) : TokensAt(s, i, TimezoneNames \cup TimezoneAbbrevs, TRUE) = {}

\* every hyphen of s has exactly one space on each side
HyphensSpaced(s) ==
  \A i \in 1..Len(s) :
    s[i] = "-" => /\ i - 1 >= 1 /\ s[i - 1] = " "
                  /\ i + 1 <= Len(s) /\ s[i + 1] = " "
                  /\ ~(i - 2 >= 1 /\ s[i - 2] = " ")
                  /\ ~(i + 2 <= Len(s) /\ s[i + 2] = " ")

\* C7: for an input in which a digit is followed (with or without spaces) by
\* an am/pm marker, the normalised string holds every such marker lower-cased
\* right after its digit, no timezone name or abbreviation, and every hyphen
\* between single spaces.
C7_NormalForm ==
  (stage = "normalized" /\ DigitMarkerPairs(safeStr(timeStr)) # {})
  => /\ \A p \in DigitMarkerPairs(normalized) :
          /\ p[2] = p[1] + 1
          /\ normalized[p[2]] \in {"a", "p"}
          /\ normalized[p[2] + 1] = "m"
     /\ NoTimezoneIn(normalized)
     /\ HyphensSpaced(normalized)

(* ------------------------------------------------------------------ *)
(* Spec: the page, from mount to the events of the visitor             *)
(* ------------------------------------------------------------------ *)

\* the longest feed, in rows
MaxRows == 3

\* how many events of the visitor (typing, checking, clearing) are followed
MaxUiEvents == 2

\* an event of 2026-04-02, 7 pm, with every column of both drafts
EventA ==
  Row(   "id" :> Str(<<"1">>)
      @@ "Name of Event" :> Str(<<"E","r","g","o">>)
      @@ "Date of the Event" :> Str(<<"2","0","2","6","-","0","4","-","0","2">>)
      @@ "Time of the event" :> Str(<<"7",":","0","0"," ","p","m">>)
      @@ "category" :> Str(<<"P","e","r","i","o">>)
      @@ "Category Tags" :> Str(<<"P","e","r","i","o",","," ","O","r","t","h","o">>)
      @@ "CE Hours" :> Str(<<"1",".","5">>)
      @@ "Hours (Tag)" :> Str(<<"1",".","5">>)
      @@ "Presenter / Vendor (Tag)" :> Str(<<"A","c","m","e">>)
      @@ "Format" :> Str(<<"L","i","v","e">>)
      @@ "Roles" :> Str(<<"D","e","n","t","i","s","t">>)
      @@ "Registration Link" :> Str(<<"h","t","t","p","s",":","/","/","a",".","c","o">>))

\* an event of 2026-04-03 without a time, with the id of EventA
EventB ==
  Row(   "id" :> Str(<<"1">>)
      @@ "Name of Event" :> Str(<<"S","c","a","n">>)
      @@ "Date of the Event" :> Str(<<"4","/","0","3","/","2","0","2","6">>)
      @@ "category" :> Str(<<"O","r","t","h","o">>)
      @@ "Category Tags" :> Str(<<"O","r","t","h","o">>)
      @@ "CE Hours" :> Str(<<"2"," ","C","E">>)
      @@ "Hours (Tag)" :> Str(<<"1","0">>)
      @@ "Presenter / Vendor (Tag)" :> Str(<<"B","o","l","t">>)
      @@ "Format" :> Str(<<"I","n"," ","P","e","r","s","o","n">>)
      @@ "Roles" :> Str(<<"D","e","n","t","i","s","t",","," ","H","y","g","i","e","n","i","s","t">>))

\* an event without an id whose date is not a date
EventC ==
  Row(   "Name of Event" :> Str(<<"E","r","g","o">>)
      @@ "Date of the Event" :> Str(<<"T","B","D">>)
      @@ "Time of the event" :> Str(<<"7",":","0","0"," ","p","m">>)
      @@ "category" :> Str(<<"P","e","r","i","o">>)
      @@ "Category Tags" :> Str(<<"P","e","r","i","o">>)
      @@ "Presenter / Vendor (Tag)" :> Str(<<"A","c","m","e">>))

\* an event with a vendor and nothing else
EventD ==
  Row(   "Presenter / Vendor (Tag)" :> Str(<<"B","o","l","t">>)
      @@ "Date of the Event" :> Null)

\* an event at the instant of EventA, with a number as its id
EventE ==
  Row(   "id" :> Num(<<"2">>)
      @@ "Name of Event" :> Str(<<"L","a","b">>)
      @@ "Date of the Event" :> Str(<<"2","0","2","6","-","0","4","-","0","2">>)
      @@ "Time of the event" :> Str(<<"7",":","0","0"," ","p","m">>)
      @@ "category" :> Str(<<"O","r","t","h","o">>)
      @@ "Category Tags" :> Str(<<"O","r","t","h","o">>)
      @@ "CE Hours" :> Str(<<"1",".","5","0">>)
      @@ "Hours (Tag)" :> Str(<<"2">>)
      @@ "Presenter / Vendor (Tag)" :> Str(<<"B","o","l","t">>)
      @@ "Format" :> Str(<<"L","i","v","e">>))

RawRows == { EventA, EventB, EventC, EventD, EventE, NullRow }

\* every feed of at most n rows
RECURSIVE Feeds(_)
Feeds(n) ==
  IF n = 0 THEN { <<>> }
  ELSE LET shorter == Feeds(n - 1)
       IN shorter \cup { Append(f, r) : f \in shorter, r \in RawRows }

\* what the request of the feed can end with: a JSON object with an items
\* array, a JSON object without one, or a failure (network, HTTP status,
\* script error, timeout)
Responses ==
  { [kind |-> "items", items |-> f] : f \in Feeds(MaxRows) }
    \cup { [kind |-> "noitems", items |-> <<>>], [kind |-> "failure", items |-> <<>>] }

\* the instants of the clock, in minutes since 2026-04-01T00:00Z:
\* 04-01 12:00Z, 04-02 20:00Z, 04-03 18:40Z, 04-05 04:00Z
Clock == { 12 * 60, MinutesPerDay + 20 * 60, 2 * MinutesPerDay + 18 * 60 + 40,
           4 * MinutesPerDay + 4 * 60 }

\* the texts typed in the search box: none, the CE hours of an event, a
\* category in capitals with a space after it
Queries == { <<>>, <<"1",".","5">>, <<"O","r","t","h","o"," ">> }

Drafts == { "part_002", "App.jsx" }

BadJson == <<"B","a","d"," ","J","S","O","N">>

FetchFailed == <<"F","e","t","c","h"," ","f","a","i","l","e","d">>

TypeError == <<"T","y","p","e","E","r","r","o","r">>

\* the filter state of the page
CurrentFilter ==
  FilterState(query, catSelected, vendorSelected, ceSelected, formatSelected,
              rolesSelected)

NoFilter == FilterState(<<>>, {}, {}, {}, {}, {})

\* the option lists that the sidebar offers
categories ==
  IF draft = "part_002" THEN categoriesOf(rows) ELSE categoryOptionsOf(upcomingItems)

vendors ==
  IF draft = "part_002" THEN vendorsOf(rows) ELSE presenterOptionsOf(upcomingItems)

ceHours ==
  IF draft = "part_002" THEN ceHoursOf(rows) ELSE ceOptionsOf(upcomingItems)

formats == IF draft = "part_002" THEN formatsOf(rows) ELSE <<>>

roles == IF draft = "part_002" THEN rolesOf(rows) ELSE <<>>

\* a toggle that adds the value and never removes it
toggleAdding(set, value) == set \cup {value}

\* toggle(setFn, value) / toggleSetValue(set, value, setter)
toggle(set, value) == IF value \in set THEN set \ {value} ELSE set \cup {value}

\* the memos after a change of the filter state to f: part_002 runs the
\* whole chain of filtered and reads the clock; App.jsx filters the
\* upcomingItems that it has
Refilter(f) ==
  IF draft = "part_002"
  THEN /\ filtered' = FilteredRows(rows, f, now, tz)
       /\ pastFilterAt' = now
       /\ UNCHANGED upcomingItems
  ELSE /\ filtered' = FilteredItems(upcomingItems, f)
       /\ UNCHANGED <<upcomingItems, pastFilterAt>>

Init ==
  /\ tz \in Zones
  /\ TimeAtRest
  /\ ApplyAtRest
  /\ response = NoResponse
  /\ jsonp = NoJsonp
  /\ draft \in Drafts
  /\ now \in Clock
  /\ request = "pending"
  /\ cancelled = FALSE
  /\ rows = <<>>
  /\ loading = TRUE
  /\ loadError = <<>>
  /\ query = <<>>
  /\ catSelected = {}
  /\ vendorSelected = {}
  /\ ceSelected = {}
  /\ formatSelected = {}
  /\ rolesSelected = {}
  /\ upcomingItems = <<>>
  /\ filtered = <<>>
  /\ pastFilterAt = now
  /\ uiEvents = 0

\* part_002: load() after the await, with what the request ended with
LoadRows(res) ==
  /\ loading' = FALSE
  /\ pastFilterAt' = now
  /\ UNCHANGED upcomingItems
  /\ IF res.kind = "items"
     THEN /\ rows' = NormalizeAll(res.items, tz)
          /\ filtered' = FilteredRows(rows', CurrentFilter, now, tz)
          /\ UNCHANGED loadError
     ELSE /\ rows' = <<>>
          /\ filtered' = <<>>
          /\ loadError' = IF res.kind = "noitems" THEN BadJson ELSE FetchFailed

\* App.jsx: load() after the await, with what the request ended with
LoadItems(res) ==
  /\ loading' = FALSE
  /\ IF res.kind = "failure"
     THEN /\ loadError' = FetchFailed
          /\ UNCHANGED <<rows, memoVars>>
     ELSE IF \E i \in DOMAIN res.items : res.items[i] = NullRow
     THEN /\ loadError' = TypeError
          /\ UNCHANGED <<rows, memoVars>>
     ELSE /\ rows' = ParseAll(res.items, tz)
          /\ upcomingItems' = upcomingItemsOf(rows', now)
          /\ pastFilterAt' = now
          /\ filtered' = FilteredItems(upcomingItems', CurrentFilter)
          /\ UNCHANGED loadError

\* the request of the load effect ends: nothing is set once cancelled
LoadSettles ==
  /\ request = "pending"
  /\ request' = "settled"
  /\ \E r \in Responses :
       /\ response' = r
       /\ IF cancelled
          THEN UNCHANGED <<rows, loading, loadError, memoVars>>
          ELSE IF draft = "part_002" THEN LoadRows(r) ELSE LoadItems(r)
  /\ UNCHANGED <<tz, timeVars, applyVars, draft, now, cancelled, jsonp, filterVars, uiEvents>>

\* the cleanup of the load effect
Unmount ==
  /\ ~cancelled
  /\ cancelled' = TRUE
  /\ UNCHANGED <<tz, timeVars, applyVars, draft, now, request, response, rows, loading, loadError,
                 jsonp, filterVars, memoVars, uiEvents>>

\* time passes
Tick ==
  /\ ~cancelled
  /\ \E t \in Clock : t > now /\ now' = t
  /\ UNCHANGED <<tz, timeVars, applyVars, draft, loadVars, filterVars, memoVars, uiEvents>>

\* an event of the visitor is handled
UiEvent ==
  /\ ~cancelled
  /\ uiEvents < MaxUiEvents
  /\ uiEvents' = uiEvents + 1
  /\ UNCHANGED <<tz, timeVars, applyVars, draft, now, loadVars>>

\* the search box: onChange
SetQuery ==
  /\ UiEvent
  /\ \E q \in Queries : q # query /\ query' = q
  /\ Refilter([CurrentFilter EXCEPT !.query = query'])
  /\ UNCHANGED <<catSelected, vendorSelected, ceSelected, formatSelected, rolesSelected>>

\* a checkbox of the category facet
ToggleCategory ==
  /\ UiEvent
  /\ \E v \in Range(categories) : catSelected' = toggle(catSelected, v)
  /\ Refilter([CurrentFilter EXCEPT !.catSelected = catSelected'])
  /\ UNCHANGED <<query, vendorSelected, ceSelected, formatSelected, rolesSelected>>

\* a checkbox of the vendor (presenter) facet
ToggleVendor ==
  /\ UiEvent
  /\ \E v \in Range(vendors) : vendorSelected' = toggle(vendorSelected, v)
  /\ Refilter([CurrentFilter EXCEPT !.vendorSelected = vendorSelected'])
  /\ UNCHANGED <<query, catSelected, ceSelected, formatSelected, rolesSelected>>

\* a checkbox of the CE hours facet
ToggleCe ==
  /\ UiEvent
  /\ \E v \in Range(ceHours) : ceSelected' = toggle(ceSelected, v)
  /\ Refilter([CurrentFilter EXCEPT !.ceSelected = ceSelected'])
  /\ UNCHANGED <<query, catSelected, vendorSelected, formatSelected, rolesSelected>>

\* a checkbox of the format facet (part_002)
ToggleFormat ==
  /\ UiEvent
  /\ \E v \in Range(formats) : formatSelected' = toggle(formatSelected, v)
  /\ Refilter([CurrentFilter EXCEPT !.formatSelected = formatSelected'])
  /\ UNCHANGED <<query, catSelected, vendorSelected, ceSelected, rolesSelected>>

\* a checkbox of the roles facet (part_002)
ToggleRole ==
  /\ UiEvent
  /\ \E v \in Range(roles) : rolesSelected' = toggle(rolesSelected, v)
  /\ Refilter([CurrentFilter EXCEPT !.rolesSelected = rolesSelected'])
  /\ UNCHANGED <<query, catSelected, vendorSelected, ceSelected, formatSelected>>

\* clearFilters / clearAll
ClearFilters ==
  /\ UiEvent
  /\ query' = <<>>
  /\ catSelected' = {}
  /\ vendorSelected' = {}
  /\ ceSelected' = {}
  /\ formatSelected' = {}
  /\ rolesSelected' = {}
  /\ Refilter(NoFilter)

Next ==
  \/ LoadSettles
  \/ Unmount
  \/ Tick
  \/ SetQuery
  \/ ToggleCategory
  \/ ToggleVendor
  \/ ToggleCe
  \/ ToggleFormat
  \/ ToggleRole
  \/ ClearFilters

Spec == Init /\ [][Next]_vars

(* ------------------------------------------------------------------ *)
(* Claims about the visible list and the option lists                   *)
(* ------------------------------------------------------------------ *)

\* the timestamp of an event: its date (part_002) or its startAt (App.jsx)
Timestamp(r) == IF draft = "part_002" THEN r.date ELSE r.startAt

EmptyFilter ==
  /\ query = <<>>
  /\ catSelected = {}
  /\ vendorSelected = {}
  /\ ceSelected = {}
  /\ formatSelected = {}
  /\ rolesSelected = {}

Visible(r) == \E i \in DOMAIN filtered : filtered[i] = r

\* the day of timestamp ts is over at the instant read by the past filter
DayIsOver(ts) == LocalDay(ts[1], tz) < LocalDay(pastFilterAt, tz)

\* C1: an event with a timestamp is removed from the visible list if and
\* only if the end of the local day of its timestamp is strictly before the
\* current instant (the instant that the past filter read): an event of
\* today stays visible for the whole day, also after its start time
C1_PastExclusion ==
  \A i \in DOMAIN rows :
    Timestamp(rows[i]) # NoDate =>
      /\ DayIsOver(Timestamp(rows[i])) => ~Visible(rows[i])
      /\ (~DayIsOver(Timestamp(rows[i])) /\ EmptyFilter) => Visible(rows[i])

\* C2: an event with no date at all is never removed by the past filter:
\* with no facet selection and an empty query it is in the visible list,
\* whatever the current instant
C2_UndatedNeverExcluded ==
  \A i \in DOMAIN rows :
    (Timestamp(rows[i]) = NoDate /\ EmptyFilter) => Visible(rows[i])

\* an undated event is visible next to a dated event that the past filter
\* removed
C2_Witness ==
  /\ EmptyFilter
  /\ request = "settled"
  /\ \E i, j \in DOMAIN rows :
       /\ Timestamp(rows[i]) = NoDate
       /\ Visible(rows[i])
       /\ Timestamp(rows[j]) # NoDate
       /\ ~Visible(rows[j])

\* timestamp a is strictly after timestamp b, no timestamp being after all
After(a, b) ==
  IF a = NoDate THEN b # NoDate
  ELSE b # NoDate /\ a[1] > b[1]

\* C8: the visible list is in ascending order of timestamp, the events with
\* no date after all the dated ones, and events with the same timestamp (or
\* with no date) are in the order of the feed
C8_SortedStable ==
  /\ \A i, j \in DOMAIN filtered :
       i < j => ~After(Timestamp(filtered[i]), Timestamp(filtered[j]))
  /\ \A k \in { Timestamp(filtered[i]) : i \in DOMAIN filtered } :
       SelectSeq(filtered, LAMBDA r : Timestamp(r) = k)
         = SelectSeq(rows, LAMBDA r : Timestamp(r) = k /\ Visible(r))

\* three events are visible, the first of the feed undated and shown last,
\* the other two with the same timestamp and in the order of the feed
C8_Witness ==
  /\ Len(rows) = 3
  /\ Len(filtered) = 3
  /\ Timestamp(rows[1]) = NoDate
  /\ Timestamp(rows[2]) # NoDate
  /\ Timestamp(rows[2]) = Timestamp(rows[3])
  /\ rows[2] # rows[3]
  /\ filtered = <<rows[2], rows[3], rows[1]>>

\* the events that the past filter kept at its last run
Survivors ==
  IF draft = "part_002"
  THEN SelectSeq(rows, LAMBDA r : IsUpcoming(r, pastFilterAt, tz))
  ELSE upcomingItems

\* the values of the facets on the survivors
SurvivorCategories ==
  IF draft = "part_002"
  THEN { Survivors[i].category : i \in DOMAIN Survivors } \ { <<>> }
  ELSE UNION { Range(Survivors[i].categories) : i \in DOMAIN Survivors }

SurvivorVendors ==
  IF draft = "part_002"
  THEN { Survivors[i].vendor : i \in DOMAIN Survivors } \ { <<>> }
  ELSE { Survivors[i].presenter : i \in DOMAIN Survivors } \ { <<>> }

SurvivorFormats ==
  IF draft = "part_002"
  THEN { Survivors[i].format : i \in DOMAIN Survivors } \ { <<>> }
  ELSE {}

SurvivorCeHours ==
  IF draft = "part_002"
  THEN { Survivors[i].ce[1] : i \in { j \in DOMAIN Survivors : Survivors[j].ce # <<>> } }
  ELSE { Survivors[i].ce : i \in DOMAIN Survivors } \ { <<>> }

\* the number of a CE hours option
CeNumber(v) == IF draft = "part_002" THEN v ELSE JsNumber(DigitsAndDots(v))

\* C9: the category, vendor, format and CE hours option lists hold exactly
\* the distinct non-empty values of the events that survived the past
\* filter, the strings in alphabetical order and the CE hours in ascending
\* numerical order
C9_OptionsFromSurvivors ==
  /\ Range(categories) = SurvivorCategories
  /\ Range(vendors) = SurvivorVendors
  /\ Range(formats) = SurvivorFormats
  /\ Range(ceHours) = SurvivorCeHours
  /\ \A i, j \in DOMAIN categories : i < j => LocaleLess(categories[i], categories[j])
  /\ \A i, j \in DOMAIN vendors : i < j => LocaleLess(vendors[i], vendors[j])
  /\ \A i, j \in DOMAIN formats : i < j => LocaleLess(formats[i], formats[j])
  /\ \A i, j \in DOMAIN ceHours :
       i < j => ~NumLess(CeNumber(ceHours[j]), CeNumber(ceHours[i]))

\* C10: the ids of the events of a loaded feed are pairwise distinct
C10_IdsDistinct ==
  \A i, j \in DOMAIN rows : i # j => rows[i].id # rows[j].id

(* ------------------------------------------------------------------ *)
(* SpecGet: the field extractors of the drafts, applied to one row      *)
(* ------------------------------------------------------------------ *)

\* the function returned v
Returned(v) == [applied |-> TRUE, threw |-> FALSE, value |-> v]

\* the function threw
Threw == [applied |-> TRUE, threw |-> TRUE, value |-> <<>>]

\* App.jsx (first draft): safeStr(v), the trimmed string of a string and ""
\* for any other value
safeStrOfStrings(v) == IF v.type = "string" THEN Trim(StringOf(v)) ELSE <<>>

\* part_002: get("category", "Category", "CATEGORY") of normalize
CategoryAliases == <<"category", "Category", "CATEGORY">>

\* part_001: the properties that getCategory reads, in its order
GetCategoryAliases == <<"category", "Category", "COURSE CATEGORY", "Course Category">>

\* part_001: getCategory(raw), reading a property of raw throws on null
getCategory(raw) ==
  IF raw.null THEN Threw
  ELSE Returned(
         OrElse(safe(Cell(raw, "category")),
           OrElse(safe(Cell(raw, "Category")),
             OrElse(safe(Cell(raw, "COURSE CATEGORY")),
                    safe(Cell(raw, "Course Category"))))))

\* App.jsx (first draft): safeStr(raw.id) of normalizeItem
IdOfItem(raw) ==
  IF raw.null THEN Threw ELSE Returned(safeStrOfStrings(Cell(raw, "id")))

Extractors == { "get", "getCategory", "safeStr" }

\* the aliases that an extractor is given
AliasesOf(extractor) ==
  IF extractor = "get" THEN CategoryAliases
  ELSE IF extractor = "getCategory" THEN GetCategoryAliases
  ELSE <<"id">>

\* the values of a column: absent, null, blank strings, a string to trim,
\* a number
ColumnValues ==
  { Null, Str(<<>>), Str(<<" ">>), Str(<<" ", "P", "e", "r", "i", "o", " ">>),
    Str(<<"O", "r", "t", "h", "o">>), Num(<<"2">>) }

\* the rows given to the extractors: every choice of values of three
\* columns, and the null row
ExtractorRows ==
  { Row(("category" :> a) @@ ("Category" :> b) @@ ("id" :> c)) :
      a \in ColumnValues, b \in ColumnValues, c \in ColumnValues }
    \cup { NullRow }

InitGet ==
  /\ tz = 0
  /\ TimeAtRest
  /\ PageAtRest
  /\ subject \in Extractors
  /\ argument \in ExtractorRows
  /\ outcome = NoOutcome

\* the extractor is applied to the row
ExtractField ==
  /\ subject \in Extractors
  /\ ~outcome.applied
  /\ outcome' = IF subject = "get" THEN Returned(get(argument, CategoryAliases))
                ELSE IF subject = "getCategory" THEN getCategory(argument)
                ELSE IdOfItem(argument)
  /\ UNCHANGED <<tz, timeVars, pageVars, subject, argument>>

NextGet == ExtractField

SpecGet == InitGet /\ [][NextGet]_vars

\* the value of alias k of the row qualifies: it is defined, not null and
\* not empty once coerced to a string and trimmed
Qualifies(row, k) ==
  Cell(row, k) # Null /\ Trim(StringOf(Cell(row, k))) # <<>>

\* the trimmed value of the first alias that qualifies, "" if none does
FirstQualifying(row, aliases) ==
  LET found == { i \in DOMAIN aliases : Qualifies(row, aliases[i]) }
  IN IF found = {} THEN <<>>
     ELSE Trim(StringOf(Cell(row, aliases[CHOOSE i \in found : \A j \in found : i <= j])))

\* C11: a field extractor returns the trimmed value of the first alias whose
\* value is defined, non-null and non-empty after coercion to a string and
\* trimming, "" if there is none; numbers are coerced to strings, and null
\* values or a null row never make it throw
C11_FieldExtractor ==
  outcome.applied =>
    /\ ~outcome.threw
    /\ outcome.value = FirstQualifying(argument, AliasesOf(subject))

(* ------------------------------------------------------------------ *)
(* SpecNormalize: the normalizers of the drafts, applied to one row     *)
(* ------------------------------------------------------------------ *)

\* App.jsx (second draft): the callback of .map on one row; reading a
\* property of a null row throws
MapRow(row, idx, z) == IF row.null THEN Threw ELSE Returned(ParseRow(row, idx, z))

\* a row without any column
EmptyRow == Row(<<>>)

\* a row of null values, numbers and malformed strings
EventF ==
  Row(   "id" :> Num(<<"7">>)
      @@ "Name of Event" :> Null
      @@ "Date of the Event" :> Str(<<"1","3","/","4","5","/","2","0","2","6">>)
      @@ "Time of the event" :> Str(<<" ">>)
      @@ "category" :> Str(<<" ">>)
      @@ "Category Tags" :> Str(<<" ", ",", " ">>)
      @@ "CE Hours" :> Str(<<"1",".","2",".","3">>)
      @@ "Hours (Tag)" :> Null
      @@ "Presenter / Vendor (Tag)" :> Num(<<"0">>)
      @@ "Roles" :> Str(<<",", " ", ",">>)
      @@ "Registration Link" :> Null)

NormalizerRows == RawRows \cup { EmptyRow, EventF }

\* the greatest index of a row given to a normalizer
MaxIndex == 2

Normalizers == { "normalize", "parsed" }

InitNormalize ==
  /\ tz \in Zones
  /\ TimeAtRest
  /\ PageAtRest
  /\ subject \in Normalizers
  /\ argument \in { [row |-> r, index |-> i] : r \in NormalizerRows, i \in 0..MaxIndex }
  /\ outcome = NoOutcome

\* the normalizer is applied to the row and its index
NormalizeRow ==
  /\ subject \in Normalizers
  /\ ~outcome.applied
  /\ outcome' = IF subject = "normalize"
                THEN Returned(normalize(argument.row, argument.index, tz))
                ELSE MapRow(argument.row, argument.index, tz)
  /\ UNCHANGED <<tz, timeVars, pageVars, subject, argument>>

NextNormalize == NormalizeRow

SpecNormalize == InitNormalize /\ [][NextNormalize]_vars

\* the row has a value for none of the aliases
HasNone(row, aliases) == \A i \in DOMAIN aliases : ~Qualifies(row, aliases[i])

\* the defaults of the events of part_002
RowDefaults(row, e) ==
  /\ HasNone(row, <<"Name of Event", "Event Name", "Title">>) => e.title = UntitledEvent
  /\ HasNone(row, <<"Description", "description", "DESC", "Course Description">>)
       => e.description = <<>>
  /\ HasNone(row, <<"category", "Category", "CATEGORY">>) => e.category = <<>>
  /\ HasNone(row, <<"Presenter / Vendor (Tag)", "Vendor", "Presenter", "Presenter/Vendor">>)
       => e.vendor = <<>>
  /\ HasNone(row, <<"Vendor Logo", "Vender Logo", "Vendor logo", "Logo">>)
       => e.vendorLogo = <<>>
  /\ HasNone(row, <<"Course Thumb", "Course Thumbnail", "Thumbnail", "Thumb", "Image">>)
       => e.thumb = <<>>
  /\ HasNone(row, <<"Format", "format", "Event Format", "Type">>) => e.format = <<>>
  /\ HasNone(row, <<"Location", "location", "Venue", "Address">>) => e.location = <<>>
  /\ HasNone(row, <<"CE Hours", "CE", "CE Hour", "CE hours">>) => e.ce = <<>>
  /\ HasNone(row, <<"Date of the Event", "Event Date", "Date">>) => e.date = NoDate
  /\ HasNone(row, <<"Roles", "Role", "Role / Position", "Position", "Positions">>)
       => e.roles = <<>>
  /\ HasNone(row, <<"Time of the event", "Time of Event", "Time 1",
                    "Registration Link", "Reg Link", "Registration",
                    "2nd time of the Event", "Second Time", "Time 2",
                    "Second Registration Link", "Second Reg Link", "Registration 2">>)
       => e.sessions = <<>>
  /\ row = EventF => e.ce = <<>> /\ e.date = NoDate /\ e.roles = <<>>

\* the defaults of the events of App.jsx
ItemDefaults(row, e) ==
  /\ HasNone(row, <<"Name of Event">>) => e.title = UntitledEvent
  /\ HasNone(row, <<"Description">>) => e.description = <<>>
  /\ HasNone(row, <<"Presenter / Vendor (Tag)">>) => e.presenter = <<>>
  /\ HasNone(row, <<"Hours (Tag)">>) => e.ce = <<>>
  /\ HasNone(row, <<"Date of the Event">>) => e.startAt = NoDate
  /\ HasNone(row, <<"Category Tags">>) => e.categories = <<>>
  /\ row = EventF => e.startAt = NoDate /\ e.categories = <<>>

\* C12: a normalizer never throws and gives exactly one event for every row
\* and index, each field that the row has no alias of (or an unparsable
\* value of) taking its default: "" for a text, the placeholder title, no
\* CE hours, no date, empty lists of roles and sessions
C12_NormalizerDefaults ==
  outcome.applied =>
    /\ ~outcome.threw
    /\ IF subject = "normalize"
       THEN RowDefaults(argument.row, outcome.value)
       ELSE ItemDefaults(argument.row, outcome.value)

(* ------------------------------------------------------------------ *)
(* SpecUrl: the URL checks of the drafts, applied to one value          *)
(* ------------------------------------------------------------------ *)

\* String.prototype.startsWith
StartsWith(s, prefix) == MatchAt(s, 1, prefix, FALSE)

\* part_002: isUrl(u)
isUrl(u) == StartsWith(safe(u), <<"h","t","t","p">>)

\* part_001: isLikelyUrl(u)
isLikelyUrl(u) ==
  LET str == safe(u)
  IN \/ StartsWith(str, <<"h","t","t","p",":","/","/">>)
     \/ StartsWith(str, <<"h","t","t","p","s",":","/","/">>)

\* the longest value, in pieces, given to a URL check
MaxUrlPieces == 3

UrlPieces ==
  { <<"h","t","t","p">>, <<"h","t","t","p","s">>, <<"f","t","p">>, <<":","/","/">>, <<"a",".","c","o">>, <<"/","x">>, <<"f","o","o">>, <<" ">> }

UrlInputs == { Null } \cup { Str(u) : u \in Concats(UrlPieces, MaxUrlPieces) }

UrlChecks == { "isUrl", "isLikelyUrl" }

InitUrl ==
  /\ tz = 0
  /\ TimeAtRest
  /\ PageAtRest
  /\ subject \in UrlChecks
  /\ argument \in UrlInputs
  /\ outcome = NoOutcome

\* the check is applied to the value of a logo, thumbnail or session link
CheckUrl ==
  /\ subject \in UrlChecks
  /\ ~outcome.applied
  /\ outcome' = IF subject = "isUrl" THEN Returned(isUrl(argument))
                ELSE Returned(isLikelyUrl(argument))
  /\ UNCHANGED <<tz, timeVars, pageVars, subject, argument>>

NextUrl == CheckUrl

SpecUrl == InitUrl /\ [][NextUrl]_vars

\* the part of s before the first occurrence of character c, s if none
Before(s, c) ==
  LET at == { i \in 1..Len(s) : s[i] = c }
  IN IF at = {} THEN s
     ELSE SubSeq(s, 1, (CHOOSE i \in at : \A j \in at : i <= j) - 1)

\* s, trimmed, is an absolute URL with the scheme http or https: the scheme,
\* "://", then a host that is not empty and has no space in it, up to the
\* first "/" or ":" (the alphabet of UrlPieces has no other delimiter)
ValidHttpUrl(s) ==
  LET t == Trim(s)
      rest == IF StartsWith(t, <<"h","t","t","p",":","/","/">>) THEN SubSeq(t, 8, Len(t))
              ELSE IF StartsWith(t, <<"h","t","t","p","s",":","/","/">>) THEN SubSeq(t, 9, Len(t))
              ELSE <<>>
      authority == Before(rest, "/")
      host == Before(authority, ":")
      port == SubSeq(authority, Len(host) + 2, Len(authority))
  IN /\ host # <<>>
     /\ \A i \in DOMAIN authority : authority[i] # " "
     /\ \A i \in DOMAIN port : IsDigit(port[i])

\* C13: a logo, thumbnail or session URL is taken for present only if it is
\* a valid absolute URL with the scheme http or https; any other value, text
\* that merely begins with the letters "http" included, is taken for absent
C13_UrlValidity ==
  outcome.applied =>
    (outcome.value <=> (argument # Null /\ ValidHttpUrl(StringOf(argument))))

(* ------------------------------------------------------------------ *)
(* Claims about the facets and the search                               *)
(* ------------------------------------------------------------------ *)

\* the CE hours of an event, if it has any: a number (part_002) or a text
\* that is not empty (App.jsx)
CeValue(r) ==
  IF draft = "part_002" THEN r.ce
  ELSE IF r.ce = <<>> THEN <<>> ELSE <<r.ce>>

\* the event matches the selection of a facet, a facet with no selection
\* matching every event
CategoryOk(r) ==
  \/ catSelected = {}
  \/ IF draft = "part_002" THEN r.category \in catSelected
     ELSE Range(r.categories) \cap catSelected # {}

VendorOk(r) ==
  \/ vendorSelected = {}
  \/ (IF draft = "part_002" THEN r.vendor ELSE r.presenter) \in vendorSelected

CeOk(r) ==
  \/ ceSelected = {}
  \/ CeValue(r) # <<>> /\ CeValue(r)[1] \in ceSelected

FormatOk(r) == formatSelected = {} \/ r.format \in formatSelected

RolesOk(r) == rolesSelected = {} \/ Range(r.roles) \cap rolesSelected # {}

IsSurvivor(r) == \E i \in DOMAIN Survivors : Survivors[i] = r

\* C14: while the CE hours facet has a selection, no event without CE hours
\* is in the visible list, whatever the query and the other facets, and an
\* event with CE hours passes the facet if and only if its value is selected
C14_CeFacet ==
  ceSelected # {} =>
    /\ \A i \in DOMAIN filtered :
         CeValue(filtered[i]) # <<>> /\ CeValue(filtered[i])[1] \in ceSelected
    /\ \A i \in DOMAIN Survivors :
         ( /\ CeValue(Survivors[i]) # <<>>
           /\ CeValue(Survivors[i])[1] \in ceSelected
           /\ query = <<>> /\ catSelected = {} /\ vendorSelected = {}
           /\ formatSelected = {} /\ rolesSelected = {} )
           => Visible(Survivors[i])

\* the CE hours facet has a selection: an event with CE hours is visible and
\* an upcoming event without CE hours is not
C14_Witness ==
  /\ ceSelected # {}
  /\ filtered # <<>>
  /\ \E i \in DOMAIN Survivors :
       CeValue(Survivors[i]) = <<>> /\ ~Visible(Survivors[i])

\* C15: with a selection of roles, an event passes the roles facet if and
\* only if at least one of its roles is selected; an event with no role
\* never passes
C15_RolesFacet ==
  (draft = "part_002" /\ rolesSelected # {}) =>
    /\ \A i \in DOMAIN filtered : Range(filtered[i].roles) \cap rolesSelected # {}
    /\ \A i \in DOMAIN Survivors :
         ( /\ Range(Survivors[i].roles) \cap rolesSelected # {}
           /\ query = <<>> /\ catSelected = {} /\ vendorSelected = {}
           /\ ceSelected = {} /\ formatSelected = {} )
           => Visible(Survivors[i])

\* one role is selected: an event with that role and another one is visible,
\* an upcoming event with only the other role is not, nor is an upcoming
\* event with no role
C15_Witness ==
  /\ draft = "part_002"
  /\ Cardinality(rolesSelected) = 1
  /\ \E i \in DOMAIN filtered : Len(filtered[i].roles) = 2
  /\ \E i \in DOMAIN Survivors :
       Survivors[i].roles # <<>> /\ ~Visible(Survivors[i])
  /\ \E i \in DOMAIN Survivors :
       Survivors[i].roles = <<>> /\ ~Visible(Survivors[i])

\* C16: a facet with no selection imposes no constraint, and the facets with
\* a selection are combined conjunctively: an upcoming event is visible only
\* if it matches every facet that has a selection, and, the query being
\* empty, it is visible if it does
C16_FacetsConjunctive ==
  \A i \in DOMAIN Survivors :
    LET r == Survivors[i]
        all == CategoryOk(r) /\ VendorOk(r) /\ CeOk(r) /\ FormatOk(r) /\ RolesOk(r)
    IN /\ Visible(r) => all
       /\ (query = <<>> /\ all) => Visible(r)

\* the facets that have a selection
FacetsInUse ==
  { f \in { "category", "vendor", "ce", "format", "roles" } :
      \/ f = "category" /\ catSelected # {}
      \/ f = "vendor" /\ vendorSelected # {}
      \/ f = "ce" /\ ceSelected # {}
      \/ f = "format" /\ formatSelected # {}
      \/ f = "roles" /\ rolesSelected # {} }

\* two facets have a selection: an event that matches both is visible, and
\* an upcoming event that matches the category facet only is not
C16_Witness ==
  /\ Cardinality(FacetsInUse) = 2
  /\ catSelected # {}
  /\ filtered # <<>>
  /\ \E i \in DOMAIN Survivors :
       CategoryOk(Survivors[i]) /\ ~Visible(Survivors[i])

\* no facet has a selection
NoFacetSelected ==
  /\ catSelected = {}
  /\ vendorSelected = {}
  /\ ceSelected = {}
  /\ formatSelected = {}
  /\ rolesSelected = {}

\* the query as the search compares it: trimmed, in lower case
SearchQuery == ToLowerCase(Trim(query))

\* the texts of an event that the search looks into, the date left aside:
\* title, vendor, category, format, CE hours, description, location and
\* roles, as far as the events of the draft have them
SearchedFields(r) ==
  IF draft = "part_002"
  THEN << r.title, r.vendor, r.category, r.format,
          IF r.ce # <<>> THEN NumToChars(r.ce[1]) ELSE <<>>,
          r.description, r.location >> \o r.roles
  ELSE << r.title, r.presenter, r.ce, r.description >> \o r.categories

\* C17: with no facet selection, an event that the past filter kept is in
\* the visible list if the query is empty or made of white space, or if the
\* trimmed, lower-cased query is a part of one of its texts (title, vendor,
\* category, format, CE hours, description, location, a role) in lower
\* case; and a visible event has the query in its haystack
C17_FreeTextSearch ==
  \A i \in DOMAIN Survivors :
    LET r == Survivors[i]
        fields == SearchedFields(r)
    IN NoFacetSelected =>
         /\ SearchQuery = <<>> => Visible(r)
         /\ (\E k \in DOMAIN fields : Includes(ToLowerCase(fields[k]), SearchQuery))
              => Visible(r)
         /\ (draft = "part_002" /\ Visible(r) /\ SearchQuery # <<>>)
              => Includes(Haystack(r, tz), SearchQuery)

(* ------------------------------------------------------------------ *)
(* Claims about the load                                                *)
(* ------------------------------------------------------------------ *)

\* the load has completed and the view is still mounted
CompletedMounted == request = "settled" /\ ~cancelled

\* the request ended with a failure: no response, or a feed without a list
\* of items
LoadFailed == response.kind \in { "failure", "noitems" }

\* the events of the rows of the feed, as the draft normalizes them
Collection ==
  IF draft = "part_002" THEN NormalizeAll(response.items, tz)
  ELSE ParseAll(response.items, tz)

\* C18: once the load has completed with the view mounted, loading is
\* cleared and one outcome is recorded: after a failure a non-empty error
\* message, after a feed with a list of items either the normalized
\* collection and no error, or an error and no collection
C18_LoadLifecycle ==
  CompletedMounted =>
    /\ loading = FALSE
    /\ LoadFailed => loadError # <<>>
    /\ response.kind = "items" =>
         \/ loadError = <<>> /\ rows = Collection
         \/ loadError # <<>> /\ rows = <<>>

(* ------------------------------------------------------------------ *)
(* app.jsx (the simplest draft): the fetch of the feed                  *)
(* ------------------------------------------------------------------ *)

\* v || "": the value if it is truthy, the empty text otherwise
OrEmpty(v) ==
  IF v = Null \/ v.text = <<>> \/ v = Num(<<"0">>) THEN Str(<<>>) ELSE v

\* the callback of data.items.map(row => ({...})): the cells as they are
FetchRow(row) ==
  [ id |-> Cell(row, "id"),
    title |-> Cell(row, "Name of Event"),
    presenter |-> Cell(row, "Presenter / Vendor (Tag)"),
    description |-> Cell(row, "Description"),
    ce |-> Cell(row, "Hours (Tag)"),
    categories |-> normalizeListField(Cell(row, "Category Tags")),
    date |-> Cell(row, "Date of the Event"),
    time |-> Cell(row, "Time of the event"),
    thumb |-> Cell(row, "Thumbnail Link"),
    link |-> Cell(row, "Registration Link"),
    length |-> OrEmpty(Cell(row, "Length")) ]

\* the page of app.jsx after its first render: the fetch is on its way;
\* the draft has no loading state and no error state
InitFetch ==
  /\ tz \in Zones
  /\ TimeAtRest
  /\ ApplyAtRest
  /\ response = NoResponse
  /\ jsonp = NoJsonp
  /\ draft = "app.jsx"
  /\ now = 0
  /\ request = "pending"
  /\ cancelled = FALSE
  /\ rows = <<>>
  /\ loading = FALSE
  /\ loadError = <<>>
  /\ query = <<>>
  /\ catSelected = {}
  /\ vendorSelected = {}
  /\ ceSelected = {}
  /\ formatSelected = {}
  /\ rolesSelected = {}
  /\ upcomingItems = <<>>
  /\ filtered = <<>>
  /\ pastFilterAt = 0
  /\ uiEvents = 0

\* the promise of fetch(DATA_URL) settles. A failure, a feed without items
\* and a null row reject the chain, which has no catch: nothing is set.
\* Otherwise setItems(parsed) is called, with no look at the effect's
\* teardown: the update is applied to a view that is mounted (also one that
\* was torn down and set up again) and dropped by React if the view is gone.
\* With an empty query and no box checked every item passes the filter.
FetchSettles ==
  /\ request = "pending"
  /\ request' = "settled"
  /\ \E r \in Responses :
       /\ response' = r
       /\ IF r.kind # "items" \/ \E i \in DOMAIN r.items : r.items[i] = NullRow
          THEN UNCHANGED <<rows, filtered>>
          ELSE \/ /\ rows' = [i \in DOMAIN r.items |-> FetchRow(r.items[i])]
                  /\ filtered' = rows'
               \/ /\ cancelled
                  /\ UNCHANGED <<rows, filtered>>
  /\ UNCHANGED <<tz, timeVars, applyVars, draft, now, cancelled, loading, loadError,
                 jsonp, filterVars, upcomingItems, pastFilterAt, uiEvents>>

\* the effect of app.jsx is torn down (it returns no cleanup of its own)
TeardownFetch ==
  /\ ~cancelled
  /\ cancelled' = TRUE
  /\ UNCHANGED <<tz, timeVars, applyVars, draft, now, request, response, rows, loading,
                 loadError, jsonp, filterVars, memoVars, uiEvents>>

NextFetch ==
  \/ FetchSettles
  \/ TeardownFetch

SpecFetch == InitFetch /\ [][NextFetch]_vars

\* C19: once the load effect has been torn down, no step writes the event
\* collection, the error message or the loading flag, whenever the load
\* ends and whatever it ends with
C19_NoUpdateAfterTeardown ==
  [][cancelled => UNCHANGED <<rows, loading, loadError>>]_vars

\* C20: once a load that failed (no response, a response that is not a
\* success, JSON that does not parse, a feed without a list of items) has
\* completed with the view mounted, an error message is shown and the event
\* collection and the visible list are empty
C20_LoadErrorOutcome ==
  (CompletedMounted /\ LoadFailed) =>
    /\ loadError # <<>>
    /\ rows = <<>>
    /\ filtered = <<>>

(* ------------------------------------------------------------------ *)
(* The load on its own, with what makes it end                          *)
(* ------------------------------------------------------------------ *)

NextLoad ==
  \/ LoadSettles
  \/ Unmount

\* loadJsonp of part_002 sets a timer of timeoutMs that rejects the promise:
\* its load always ends. The fetch of App.jsx has no timer and no abort
\* signal: nothing in the code makes its load end.
SpecLoad ==
  Init /\ [][NextLoad]_vars /\ WF_vars(draft = "part_002" /\ LoadSettles)

\* C21: a load does not stay pending for ever: unless the view is torn
\* down, loading is cleared in the end; and a load that ended without a
\* response (a timeout among others) leaves an error message and an empty
\* event collection
C21_TimeoutIsLoadError ==
  /\ <>(cancelled \/ ~loading)
  /\ []((CompletedMounted /\ response.kind = "failure") =>
          (~loading /\ loadError # <<>> /\ rows = <<>>))

(* ------------------------------------------------------------------ *)
(* The sessions of an event                                             *)
(* ------------------------------------------------------------------ *)

\* part_001: getSessions(raw), reading a property of raw throws on null
getSessions(raw) ==
  IF raw.null THEN Threw
  ELSE Returned(
         SelectSeq(
           << [ label |-> safe(Cell(raw, "Time of the event")),
                url |-> safe(Cell(raw, "Registration Link")) ],
              [ label |-> safe(Cell(raw, "2nd time of the Event")),
                url |-> safe(Cell(raw, "Second Registration Link")) ] >>,
           LAMBDA x : safe(Str(x.label)) # <<>> \/ isLikelyUrl(Str(x.url))))

\* what a cell of a session is in a feed: absent, blank, a time, a text
\* that is no address, an address
SessionLabels == { Null, Str(<<" ">>), Str(<<"7"," ","p","m">>) }

SessionUrls ==
  { Null, Str(<<"f","o","o">>), Str(<<"h","t","t","p","s",":","/","/","a",".","c","o">>) }

\* a row with the given cells, the cells without a value left out
RowOf(cells) == Row([k \in { c \in DOMAIN cells : cells[c] # Null } |-> cells[k]])

SessionRows ==
  { RowOf(   "Time of the event" :> l1 @@ "Registration Link" :> u1
          @@ "2nd time of the Event" :> l2 @@ "Second Registration Link" :> u2) :
      l1 \in SessionLabels, u1 \in SessionUrls,
      l2 \in SessionLabels, u2 \in SessionUrls }
    \cup { NullRow }

SessionBuilders == { "normalize", "getSessions" }

InitSessions ==
  /\ tz = 0
  /\ TimeAtRest
  /\ PageAtRest
  /\ subject \in SessionBuilders
  /\ argument \in SessionRows
  /\ outcome = NoOutcome

\* the sessions of the row are assembled
BuildSessions ==
  /\ subject \in SessionBuilders
  /\ ~outcome.applied
  /\ outcome' = IF subject = "normalize"
                THEN Returned(normalize(argument, 0, tz).sessions)
                ELSE getSessions(argument)
  /\ UNCHANGED <<tz, timeVars, pageVars, subject, argument>>

NextSessions == BuildSessions

SpecSessions == InitSessions /\ [][NextSessions]_vars

\* the two label/URL pairs of a row, primary then secondary
SessionPairs(row) ==
  << [ label |-> FirstQualifying(row, <<"Time of the event", "Time of Event", "Time 1">>),
       url |-> FirstQualifying(row, <<"Registration Link", "Reg Link", "Registration">>) ],
     [ label |-> FirstQualifying(row, <<"2nd time of the Event", "Second Time", "Time 2">>),
       url |-> FirstQualifying(row, <<"Second Registration Link", "Second Reg Link",
                                      "Registration 2">>) ] >>

\* C22: for every row the sessions are assembled without an exception, and
\* they are the two label/URL pairs of the row, primary then secondary,
\* without the pairs that have neither a label nor a URL: at most two
\* sessions, none with both an empty label and an empty URL
C22_SessionsAssembly ==
  outcome.applied =>
    /\ ~outcome.threw
    /\ outcome.value =
         SelectSeq(SessionPairs(argument), LAMBDA x : x.label # <<>> \/ x.url # <<>>)
    /\ Len(outcome.value) <= 2
    /\ \A i \in DOMAIN outcome.value :
         outcome.value[i].label # <<>> \/ outcome.value[i].url # <<>>

(* ------------------------------------------------------------------ *)
(* The lists of an event: roles, category tags                          *)
(* ------------------------------------------------------------------ *)

\* the longest list value, in pieces
MaxListPieces == 5

ListPieces == { <<" ","a">>, <<"b"," ">>, <<"c"," ","d">>, <<",">>, <<" ">> }

ListInputs == { Null } \cup { Str(u) : u \in Concats(ListPieces, MaxListPieces) }

ListBuilders == { "normalize", "normalizeListField" }

InitList ==
  /\ tz = 0
  /\ TimeAtRest
  /\ PageAtRest
  /\ subject \in ListBuilders
  /\ argument \in ListInputs
  /\ outcome = NoOutcome

\* the roles of a row whose Roles column has the value (part_002), the
\* category tags of the value (App.jsx)
BuildList ==
  /\ subject \in ListBuilders
  /\ ~outcome.applied
  /\ outcome' = IF subject = "normalize"
                THEN Returned(normalize(RowOf("Roles" :> argument), 0, tz).roles)
                ELSE Returned(normalizeListField(argument))
  /\ UNCHANGED <<tz, timeVars, pageVars, subject, argument>>

NextList == BuildList

SpecList == InitList /\ [][NextList]_vars

\* the places where a text is cut: before it, at its commas, after it
Cuts(s) == { 0, Len(s) + 1 } \cup { i \in 1..Len(s) : s[i] = "," }

\* the k-th place, from the left
NthCut(s, k) == CHOOSE c \in Cuts(s) : Cardinality({ d \in Cuts(s) : d < c }) = k - 1

\* the stretches of the text between two places in a row, from the left
Stretches(s) ==
  [k \in 1..(Cardinality(Cuts(s)) - 1) |->
     SubSeq(s, NthCut(s, k) + 1, NthCut(s, k + 1) - 1)]

\* the text has something else than white space
NotBlank(s) == \E i \in DOMAIN s : ~IsSpace(s[i])

\* the text of the source value, "" when there is none
SourceText(v) == IF v = Null THEN <<>> ELSE StringOf(v)

\* C23: the list of an event is a list, the empty one when the source value
\* is absent or blank; its entries are the stretches of the source value
\* between commas that are not blank, in their order, each without the
\* white space around it: no entry is empty or begins or ends with white
\* space
C23_RolesList ==
  outcome.applied =>
    LET list == outcome.value
        kept == SelectSeq(Stretches(SourceText(argument)), NotBlank)
    IN /\ ~outcome.threw
       /\ Len(list) = Len(kept)
       /\ \A i \in DOMAIN list :
            /\ list[i] # <<>>
            /\ ~IsSpace(list[i][1])
            /\ ~IsSpace(list[i][Len(list[i])])
            /\ \E pre, post \in 0..Len(kept[i]) :
                 /\ pre + Len(list[i]) + post = Len(kept[i])
                 /\ list[i] = SubSeq(kept[i], pre + 1, pre + Len(list[i]))
                 /\ \A j \in 1..pre : IsSpace(kept[i][j])
                 /\ \A j \in 1..post : IsSpace(kept[i][Len(kept[i]) + 1 - j])
       /\ ~NotBlank(SourceText(argument)) => list = <<>>

\* the roles of a row with padded entries and empty entries in its column
C23_Witness ==
  /\ outcome.applied
  /\ subject = "normalize"
  /\ argument = Str(<<" ","a", ",", " ", ",", "b"," ">>)
  /\ outcome.value = << <<"a">>, <<"b">> >>

(* ------------------------------------------------------------------ *)
(* Claims about the recomputation of the visible list                   *)
(* ------------------------------------------------------------------ *)

\* the whole pipeline of draft d on a collection and a filter state, at an
\* instant: past filter, facets, search, sort
PipelineAt(rs, f, instant, z, d) ==
  IF d = "part_002" THEN FilteredRows(rs, f, instant, z)
  ELSE FilteredItems(upcomingItemsOf(rs, instant), f)

\* C24: after every step that changes the event collection, the query or
\* the selection of a facet, the visible list is the whole pipeline applied
\* to the new collection and filter state at the instant of that step, so
\* that no event that is past at that instant is visible
C24_Recomputation ==
  [][(rows' # rows \/ filterVars' # filterVars) =>
       filtered' = PipelineAt(rows',
                              FilterState(query', catSelected', vendorSelected',
                                          ceSelected', formatSelected', rolesSelected'),
                              now', tz, draft)]_vars

(* ------------------------------------------------------------------ *)
(* part_002: loadJsonp and the load that awaits it                      *)
(* ------------------------------------------------------------------ *)

\* a cleanup that leaves the global callback registered
cleanupLeavingCallback(j) == [j EXCEPT !.script = FALSE, !.timer = FALSE]

\* cleanup(): delete window[cbName], remove the script element, clearTimeout
cleanup(j) == [j EXCEPT !.callback = FALSE, !.script = FALSE, !.timer = FALSE]

\* resolve(data) / reject(error) of the promise: the first call settles it,
\* a later call does nothing
settle(j, how) == IF j.promise = "pending" THEN [j EXCEPT !.promise = how] ELSE j

\* the event is one of those that have happened
Happened(e) == \E i \in DOMAIN jsonp.events : jsonp.events[i] = e

\* the page of part_002 after its first render: loadJsonp has registered the
\* callback, armed the timer and appended the script element
InitJsonp ==
  /\ tz \in Zones
  /\ TimeAtRest
  /\ ApplyAtRest
  /\ response = NoResponse
  /\ jsonp = [ promise |-> "pending", callback |-> TRUE, script |-> TRUE,
               timer |-> TRUE, events |-> <<>> ]
  /\ draft = "part_002"
  /\ now \in Clock
  /\ request = "pending"
  /\ cancelled = FALSE
  /\ rows = <<>>
  /\ loading = TRUE
  /\ loadError = <<>>
  /\ query = <<>>
  /\ catSelected = {}
  /\ vendorSelected = {}
  /\ ceSelected = {}
  /\ formatSelected = {}
  /\ rolesSelected = {}
  /\ upcomingItems = <<>>
  /\ filtered = <<>>
  /\ pastFilterAt = now
  /\ uiEvents = 0

\* load() goes on after await loadJsonp(DATA_URL) when the promise has just
\* been settled with res, and not when it was settled before
LoadResumes(res) ==
  IF jsonp.promise = "pending"
  THEN /\ request' = "settled"
       /\ response' = res
       /\ IF cancelled THEN UNCHANGED <<rows, loading, loadError, memoVars>>
          ELSE LoadRows(res)
  ELSE UNCHANGED <<request, response, rows, loading, loadError, memoVars>>

\* the script of the feed arrives and runs (a script element that was
\* removed still runs): it calls the global callback with the data if the
\* callback is registered, and fails on an undefined name if it is not
ScriptRuns ==
  /\ jsonp.promise # "none"
  /\ ~Happened("load") /\ ~Happened("error")
  /\ \E r \in Responses :
       /\ r.kind # "failure"
       /\ IF jsonp.callback
          THEN /\ jsonp' = [settle(cleanup(jsonp), "resolved")
                              EXCEPT !.events = Append(@, "load")]
               /\ LoadResumes(r)
          ELSE /\ jsonp' = [jsonp EXCEPT !.events = Append(@, "load")]
               /\ UNCHANGED <<request, response, rows, loading, loadError, memoVars>>
  /\ UNCHANGED <<tz, timeVars, applyVars, draft, now, cancelled, filterVars, uiEvents>>

\* script.onerror: the script of the feed could not be loaded
ScriptError ==
  /\ jsonp.promise # "none"
  /\ ~Happened("load") /\ ~Happened("error")
  /\ jsonp' = [settle(cleanup(jsonp), "script error") EXCEPT !.events = Append(@, "error")]
  /\ LoadResumes([kind |-> "failure", items |-> <<>>])
  /\ UNCHANGED <<tz, timeVars, applyVars, draft, now, cancelled, filterVars, uiEvents>>

\* the callback of setTimeout, if the timer has not been cleared
TimeoutFires ==
  /\ jsonp.timer
  /\ ~Happened("timeout")
  /\ jsonp' = [settle(cleanup(jsonp), "timed out") EXCEPT !.events = Append(@, "timeout")]
  /\ LoadResumes([kind |-> "failure", items |-> <<>>])
  /\ UNCHANGED <<tz, timeVars, applyVars, draft, now, cancelled, filterVars, uiEvents>>

NextJsonp ==
  \/ ScriptRuns
  \/ ScriptError
  \/ TimeoutFires
  \/ Unmount

SpecJsonp == InitJsonp /\ [][NextJsonp]_vars

\* how the promise is settled by an event that comes first
SettledBy(e) ==
  IF e = "load" THEN "resolved"
  ELSE IF e = "error" THEN "script error"
  ELSE "timed out"

\* C25: whatever the order of the callback, the script error and the
\* timeout, the promise of loadJsonp is settled by the first of them only;
\* after it the callback is unregistered, the script element removed and
\* the timer cleared, and a later event changes neither the outcome of the
\* promise nor the state of the page
C25_JsonpSettlesOnce ==
  /\ [](/\ jsonp.events = <<>> => jsonp.promise = "pending"
        /\ jsonp.events # <<>> =>
             /\ jsonp.promise = SettledBy(jsonp.events[1])
             /\ ~jsonp.callback /\ ~jsonp.script /\ ~jsonp.timer
             /\ request = "settled")
  /\ [][jsonp.events # <<>> =>
          /\ jsonp'.promise = jsonp.promise
          /\ UNCHANGED <<request, response, rows, loading, loadError, filtered>>]_vars

\* the script of the feed runs after the timeout has rejected the promise
C25_Witness ==
  /\ jsonp.events = <<"timeout", "load">>
  /\ jsonp.promise = "timed out"
  /\ ~cancelled
  /\ loadError # <<>>
  /\ rows = <<>>

(* ------------------------------------------------------------------ *)
(* The main panel of the page                                           *)
(* ------------------------------------------------------------------ *)

\* part_002: what <main> renders
MainOfRows ==
     { v \in { "loading" } : loading }
  \cup { v \in { "error" } : ~loading /\ loadError # <<>> }
  \cup { v \in { "no match" } : ~loading /\ loadError = <<>> /\ Len(filtered) = 0 }
  \cup { v \in { "grid" } : ~loading /\ loadError = <<>> /\ Len(filtered) > 0 }

\* App.jsx (second draft): what <main> renders; filtered.map of an empty
\* list renders nothing
MainOfItems ==
     { v \in { "loading" } : loading }
  \cup { v \in { "error" } : loadError # <<>> }
  \cup { v \in { "grid" } : ~loading /\ loadError = <<>> /\ Len(filtered) > 0 }

MainPanel == IF draft = "part_002" THEN MainOfRows ELSE MainOfItems

\* C26: in every state of the page the main panel renders exactly one of
\* the loading indicator, the error box, the message that no event matches
\* and the grid of events: never the error box with events, never nothing
C26_OneMainView ==
  /\ Cardinality(MainPanel) = 1
  /\ ~({ "error", "grid" } \subseteq MainPanel)

(* ------------------------------------------------------------------ *)
(* Claims about the events of the visitor                               *)
(* ------------------------------------------------------------------ *)

\* the two selections differ by one value exactly
FlipsOne(before, after) ==
  Cardinality((before \ after) \cup (after \ before)) = 1

\* C27: a step that changes the selection of a facet and is not the
\* clearing of all filters flips one value of that selection exactly and
\* leaves the selections of the other facets and the query as they are; an
\* event of the visitor never goes by without an effect of its kind, and
\* never changes the loaded events, the loading flag or the error; toggling
\* a value twice gives the selection back
C27_FacetToggle ==
  /\ [](\A v \in Range(categories) :
          /\ toggle(toggle(catSelected, v), v) = catSelected
          /\ (v \in toggle(catSelected, v)) # (v \in catSelected)
          /\ toggle(catSelected, v) \ {v} = catSelected \ {v})
  /\ [][uiEvents' # uiEvents =>
          /\ UNCHANGED <<rows, loading, loadError>>
          /\ \/ /\ query' # query
                /\ UNCHANGED <<catSelected, vendorSelected, ceSelected, formatSelected,
                               rolesSelected>>
             \/ /\ FlipsOne(catSelected, catSelected')
                /\ UNCHANGED <<query, vendorSelected, ceSelected, formatSelected,
                               rolesSelected>>
             \/ /\ FlipsOne(vendorSelected, vendorSelected')
                /\ UNCHANGED <<query, catSelected, ceSelected, formatSelected,
                               rolesSelected>>
             \/ /\ FlipsOne(ceSelected, ceSelected')
                /\ UNCHANGED <<query, catSelected, vendorSelected, formatSelected,
                               rolesSelected>>
             \/ /\ FlipsOne(formatSelected, formatSelected')
                /\ UNCHANGED <<query, catSelected, vendorSelected, ceSelected,
                               rolesSelected>>
             \/ /\ FlipsOne(rolesSelected, rolesSelected')
                /\ UNCHANGED <<query, catSelected, vendorSelected, ceSelected,
                               formatSelected>>
             \/ /\ query' = <<>>
                /\ catSelected' = {} /\ vendorSelected' = {} /\ ceSelected' = {}
                /\ formatSelected' = {} /\ rolesSelected' = {}]_vars

\* a box of the category facet and a box of the CE hours facet have been
\* toggled, one after the other
C27_Witness ==
  /\ uiEvents = 2
  /\ Cardinality(catSelected) = 1
  /\ Cardinality(ceSelected) = 1
  /\ vendorSelected = {} /\ formatSelected = {} /\ rolesSelected = {}
  /\ query = <<>>
  /\ rows # <<>>

\* every filter is empty after the step
ClearedAfter ==
  /\ query' = <<>>
  /\ catSelected' = {} /\ vendorSelected' = {} /\ ceSelected' = {}
  /\ formatSelected' = {} /\ rolesSelected' = {}

\* C28: an event of the visitor that leaves the query and every selection
\* empty, as the clearing of the filters does, changes neither the loaded
\* events nor the loading flag nor the error, and the visible list after it
\* is the loaded events that are not past at that instant, the events with
\* no date among them, in ascending order of date
C28_ClearFilters ==
  [][(uiEvents' # uiEvents /\ ClearedAfter) =>
       /\ UNCHANGED <<rows, loading, loadError>>
       /\ filtered' = PipelineAt(rows', NoFilter, now', tz, draft)]_vars

(* ------------------------------------------------------------------ *)
(* Claims about the visible list as a part of the loaded events         *)
(* ------------------------------------------------------------------ *)

\* how many times the event is in the list
Count(list, r) == Cardinality({ i \in DOMAIN list : list[i] = r })

\* C29: every event of the visible list is one of the loaded events, no
\* loaded event is in it more often than it is loaded, the visible list is
\* not longer than the loaded one, and only the load changes the stored
\* collection: filtering and sorting leave it as it is
C29_VisibleFromLoaded ==
  /\ [](/\ \A i \in DOMAIN filtered :
             /\ Count(rows, filtered[i]) >= 1
             /\ Count(filtered, filtered[i]) <= Count(rows, filtered[i])
        /\ Len(filtered) <= Len(rows))
  /\ [][request' = request => rows' = rows]_vars

\* a feed with the same event twice and a third event, the third one
\* filtered out by a facet
C29_Witness ==
  /\ Len(rows) = 3
  /\ rows[1] = rows[2]
  /\ rows[3] # rows[1]
  /\ uiEvents > 0
  /\ ~NoFacetSelected
  /\ filtered = <<rows[1], rows[2]>>

(* ------------------------------------------------------------------ *)
(* The visible list under two filter states                             *)
(* ------------------------------------------------------------------ *)

\* the longest feed of a page whose list is computed under two filter
\* states, and the most values that a filter state has selected
MaxFilterRows == 2

MaxSelected == 3

FilterFeeds ==
  { f \in Feeds(MaxFilterRows) : \A i \in DOMAIN f : f[i] \in { EventA, EventB, EventC, EventE } }

FilterClock == { 12 * 60, 2 * MinutesPerDay + 18 * 60 + 40 }

\* how many values the filter state has selected
Selected(f) ==
  Cardinality(f.catSelected) + Cardinality(f.vendorSelected) + Cardinality(f.ceSelected)
    + Cardinality(f.formatSelected) + Cardinality(f.rolesSelected)

\* the filter states that the boxes of the sidebar can give, with query q
FilterStates(q) ==
  { f \in { FilterState(q, c, v, h, m, o) :
              c \in SUBSET Range(categories), v \in SUBSET Range(vendors),
              h \in SUBSET Range(ceHours), m \in SUBSET Range(formats),
              o \in SUBSET Range(roles) } :
      Selected(f) <= MaxSelected }

\* the filter state without the selections of its facets
Unselected(f) == FilterState(f.query, {}, {}, {}, {}, {})

\* the filter states that are wider than f: the one with no selection at
\* all, and those with one more value in a facet that has a selection
Widened(f) ==
  { Unselected(f) }
    \cup { [f EXCEPT !.catSelected = @ \cup {x}] :
             x \in IF f.catSelected = {} THEN {} ELSE Range(categories) }
    \cup { [f EXCEPT !.vendorSelected = @ \cup {x}] :
             x \in IF f.vendorSelected = {} THEN {} ELSE Range(vendors) }
    \cup { [f EXCEPT !.ceSelected = @ \cup {x}] :
             x \in IF f.ceSelected = {} THEN {} ELSE Range(ceHours) }
    \cup { [f EXCEPT !.formatSelected = @ \cup {x}] :
             x \in IF f.formatSelected = {} THEN {} ELSE Range(formats) }
    \cup { [f EXCEPT !.rolesSelected = @ \cup {x}] :
             x \in IF f.rolesSelected = {} THEN {} ELSE Range(roles) }

\* the pairs of a filter state and a wider one
FilterPairs(q) ==
  UNION { { [small |-> f, large |-> g] : g \in Widened(f) } : f \in FilterStates(q) }

\* a page that has loaded a feed and shows its list under a filter state;
\* the argument is a wider filter state
InitFilter ==
  /\ tz \in Zones
  /\ TimeAtRest
  /\ jsonp = NoJsonp
  /\ draft \in Drafts
  /\ now \in FilterClock
  /\ request = "settled"
  /\ cancelled = FALSE
  /\ \E feed \in FilterFeeds :
       /\ response = [kind |-> "items", items |-> feed]
       /\ rows = IF draft = "part_002" THEN NormalizeAll(feed, tz) ELSE ParseAll(feed, tz)
  /\ loading = FALSE
  /\ loadError = <<>>
  /\ upcomingItems = IF draft = "part_002" THEN <<>> ELSE upcomingItemsOf(rows, now)
  /\ pastFilterAt = now
  /\ uiEvents = 0
  /\ query \in Queries
  /\ \E pair \in FilterPairs(query) :
       /\ catSelected = pair.small.catSelected
       /\ vendorSelected = pair.small.vendorSelected
       /\ ceSelected = pair.small.ceSelected
       /\ formatSelected = pair.small.formatSelected
       /\ rolesSelected = pair.small.rolesSelected
       /\ argument = pair.large
  /\ filtered = PipelineAt(rows, CurrentFilter, now, tz, draft)
  /\ subject = "filtered"
  /\ outcome = NoOutcome

\* filtered is computed for the same events, query and instant under the
\* wider filter state
FilterWider ==
  /\ subject = "filtered"
  /\ ~outcome.applied
  /\ outcome' = Returned(PipelineAt(rows, argument, now, tz, draft))
  /\ UNCHANGED <<tz, timeVars, pageVars, subject, argument>>

NextFilter == FilterWider

SpecFilter == InitFilter /\ [][NextFilter]_vars

\* C30: for the same events, query and instant, the events that are visible
\* under a filter state are visible under the filter state without any
\* facet selection, and under the filter state with one more value selected
\* in a facet that has a selection: the values of a facet combine by OR
C30_FilterMonotone ==
  outcome.applied =>
    \A i \in DOMAIN filtered :
      Count(filtered, filtered[i]) <= Count(outcome.value, filtered[i])

\* one category is selected and one event is visible; with the other
\* category selected as well, a second event is visible
C30_Witness ==
  /\ outcome.applied
  /\ Cardinality(catSelected) = 1
  /\ Cardinality(argument.catSelected) = 2
  /\ vendorSelected # {}
  /\ Len(filtered) = 1
  /\ Len(outcome.value) = 2

============================================================================
